---- MODULE Spec2Model ----
(***************************************************************************)
(* A model of the VidFlow dashboard client (afnanww/vflow):                *)
(*   - APIClient.request           (src/src/lib/api.js)                    *)
(*   - useWebSocket                (src/src/hooks/useWebSocket.js)         *)
(*   - WorkflowBuilder             (src/src/pages/WorkflowBuilder.jsx)     *)
(*   - WorkflowProgress            (src/src/pages/WorkflowProgress.jsx)    *)
(*   - WorkflowExecutionDetails    (src/unnamed/part_004)                  *)
(* Each component is a state machine of its own; a specification runs one  *)
(* component and leaves the variables of the others at their initial value.*)
(***************************************************************************)
EXTENDS Integers, Sequences, FiniteSets, TLC

VARIABLES
    \* APIClient.request: one call in progress
    hPc,            \* "idle" | "fetching" | "reading" | "backoff" | "returned" | "thrown"
    hMaxRetries,    \* const maxRetries = options.retries || 0
    hAttempt,       \* let attempt
    hOutcomes,      \* what each fetch() of this call met, in order
    hDelays,        \* the backoff delays awaited so far, in ms, in order
    hResult,        \* the value returned or the error thrown
    hElapsed,       \* how long the fetch in progress has been pending, in timeouts
    \* useWebSocket: one hook instance
    wPhase,         \* "created" | "mounted" | "unmounted"
    wSockets,       \* readyState of every WebSocket the hook constructed, in order
    wsRef,          \* wsRef.current: index into wSockets, 0 for null
    wTimers,        \* every setTimeout the hook made, in order
    reconnectTimeoutRef,  \* reconnectTimeoutRef.current: index into wTimers, 0 for null
    isConnected,    \* useState(false)
    progress,       \* useState({}): download id -> entry
    wConstructFails, \* how often new WebSocket(WS_URL) threw
    wLatest,        \* history: download id -> the last progress frame received
                    \* for it since the last clearProgress of that id
    wDrop,          \* history: "none", "dropped" once a malformed frame came,
                    \* "processed" once a progress frame came after that
    \* WorkflowBuilder: the editor and the workflows the backend holds
    nodes,          \* useNodesState: sequence of node objects
    edges,          \* useEdgesState: sequence of edge objects
    edgesRef,       \* which array object `edges` is (effect dependencies compare it)
    selectedNode,   \* useState(null): a node object or None
    currentWorkflow, \* useState(null): the bound workflow's id, 0 for null
    workflows,      \* useState([]): the list last fetched from the backend
    now,            \* Date.now()
    gLast,          \* the editor operation that ran last
    isSaving,       \* useState(false)
    saveCall,       \* the handleSave call in flight: its request (kind, id,
                    \* workflow_data) and what it awaits (phase "save", then
                    \* "list"); None when no save is running
    gSaves,         \* history: how many saves were started
    gCreates,       \* history: create requests issued since the last new/load
    gCreated,       \* history: create requests answered since the last new/load
    gBackend,       \* the workflows the backend holds (the list a fetch would return)
    delCalls,       \* the handleDelete calls in flight, in the order of the
                    \* clicks: id, whether it was bound at the click, and what
                    \* the call awaits (phase "delete", then "list")
    gDeletes,       \* history: how many deletes were confirmed
    \* An execution view: WorkflowProgress or WorkflowExecutionDetails
    eView,          \* which of the two pages is mounted
    execution,      \* useState(null): None, or the record as the view reads it
                    \* (id, status, execution_log)
    videos,         \* useState([]): videos / scannedVideos
    loading,        \* useState(true)
    fetches,        \* snapshot requests in flight
    stopModalOpen,  \* useState(false)
    stopCall,       \* the stop modal's api.workflows.cancel in flight: <<>>, or
                    \* <<the executionId of the render that sent it, the id
                    \* it was sent for>>
    sPos,           \* stream scenario: how many of its events each video has had
    lSteps,         \* list scenario: how many events the view has had
    terminals,      \* history: terminal events of the viewed execution handled so far
    \* A page with a destructive action
    dSite,          \* which page and which of its actions
    dItems,         \* the items the page lists: id -> status
    dBackend,       \* the items the backend holds: id -> status
    dRoute,         \* WorkflowExecutionDetails: useParams().executionId, 0 once
                    \* the page is left; 0 on the pages with a list
    dDialog,        \* the page's confirmation modal: None, or the id it was
                    \* opened for and whether its request runs
    dRequests,      \* the delete/cancel requests the page has sent, in order
    dAnswers,       \* history: what the user answered to each confirmation
    dFetches,       \* the list requests in flight: the route each is for and
                    \* what the backend held when it was started
    dLoading,       \* SavedChannels: useState(true), false once the list is loaded
    \* ChannelScanner
    scanMode,       \* useState('partial')
    maxVideos,      \* useState(10)
    isScanning,     \* useState(false)
    scanVideos,     \* useState([]): videos
    selectedVideos, \* useState([]): keys of the selected videos
    channelInfo,    \* useState(null)
    scanError,      \* useState(null): error
    scanCall,       \* the last api.downloads.scan call, None before the first
    scansMade,      \* how many scans were started
    bulkCalls,      \* api.downloads.bulk in flight: the urls each call sent
    \* SingleDownloader
    isDownloading,  \* useState(false)
    downloadId,     \* useState(null): "" for null
    dlError,        \* useState(null): error, "" for null
    dlCall,         \* api.downloads.single in flight: "none", or the id the
                    \* backend gives the download if it creates it
    url,            \* useState(''): the text of the URL field
    videoInfo,      \* useState(null): None, or the info fetched
    isFetchingInfo, \* useState(false)
    infoCall,       \* api.downloads.info in flight: "none" or "pending"
    playCalls,      \* api.downloads.play in flight: how many
    playingVideo,   \* useState(null): the url played, "" for null
    dlDirty,        \* progressData is another object than at the last effect run
    dlTarget,       \* history: the id of the download started last, "" if none
    dlTerminal,     \* history: the terminal status delivered for it, "none" if none
    dlStarts,       \* history: how many downloads were started
    \* The route of WorkflowExecutionDetails
    routeId,        \* useParams().executionId of WorkflowExecutionDetails
    answers,        \* history: id -> the last response fetchExecutionDetails got for it
    overtaken       \* history: at the last route change a request for the id
                    \* left behind was in flight

hvars == <<hPc, hMaxRetries, hAttempt, hOutcomes, hDelays, hResult, hElapsed>>

wvars == <<wPhase, wSockets, wsRef, wTimers, reconnectTimeoutRef, isConnected,
           progress, wConstructFails, wLatest, wDrop>>

svars == <<isSaving, saveCall, gSaves, gCreates, gCreated, gBackend, delCalls, gDeletes>>

gvars == <<nodes, edges, edgesRef, selectedNode, currentWorkflow, workflows,
           now, gLast, svars>>

evars == <<eView, execution, videos, loading, fetches, stopModalOpen, stopCall, sPos, lSteps, terminals>>

dvars == <<dSite, dItems, dBackend, dRoute, dDialog, dRequests, dAnswers, dFetches, dLoading>>

cvars == <<scanMode, maxVideos, isScanning, scanVideos, selectedVideos, channelInfo,
           scanError, scanCall, scansMade, bulkCalls>>

pvars == <<isDownloading, downloadId, dlError, dlCall, dlDirty, dlTarget, dlTerminal,
           dlStarts, url, videoInfo, isFetchingInfo, infoCall, playCalls, playingVideo>>

nvars == <<routeId, answers, overtaken>>

vars == <<hvars, wvars, gvars, evars, dvars, cvars, pvars, nvars>>

\* what an action of one component leaves alone: the other components
hOthers == <<wvars, gvars, evars, dvars, cvars, pvars, nvars>>
wOthers == <<hvars, gvars, evars, dvars, cvars, pvars, nvars>>
gOthers == <<hvars, wvars, evars, dvars, cvars, pvars, nvars>>
eOthers == <<hvars, wvars, gvars, dvars, cvars, pvars, nvars>>
dOthers == <<hvars, wvars, gvars, evars, cvars, pvars, nvars>>
cOthers == <<hvars, wvars, gvars, evars, dvars, pvars, nvars>>
pOthers == <<hvars, gvars, evars, dvars, cvars, nvars>>
nOthers == <<hvars, wvars, gvars, dvars, cvars, pvars>>

----------------------------------------------------------------------------
(* Bounds *)

MaxRetries == 2
MaxSockets == 3      \* WebSockets one hook instance constructs in a run
MaxTimers == 3       \* reconnect timers one hook instance schedules in a run
MaxDrops == 1        \* nodes dropped on the canvas in a run
MaxNodes == 2        \* nodes the canvas holds before a drop is no longer tried
MaxEdges == 1        \* edges the canvas holds before connect is no longer tried
MaxVideos == 1       \* length of a video list in a snapshot or a videos_scanned event
MaxLog == 1          \* log lines appended to the execution record in a run
MaxInFlight == 1     \* requests of one kind a page has in flight at once
MaxStreamVideos == 3 \* N of the stream scenario
MaxAnswers == 2      \* confirmations the user answers on one page in a run
MaxScans == 2        \* channel scans started on the scanner page in a run
MaxListVideos == 2   \* length of the video list in the list scenario
MaxListSteps == 2    \* events delivered in the list scenario
MaxTerminals == 1    \* terminal events of the viewed execution handled in a run
MaxSaves == 2        \* saves started in an editing session
MaxDeletes == 1      \* workflow deletes confirmed in an editing session
MaxWait == 2         \* timeouts' worth of time a fetch is followed while pending
MaxDownloads == 2    \* downloads started on the downloader page in a run

----------------------------------------------------------------------------
(* Helpers *)

None == [none |-> TRUE]

RemoveAt(seq, k) == [j \in 1..(Len(seq) - 1) |-> IF j < k THEN seq[j] ELSE seq[j + 1]]

RECURSIVE Pow(_, _)
Pow(b, n) == IF n = 0 THEN 1 ELSE b * Pow(b, n - 1)

Last(s) == s[Len(s)]

----------------------------------------------------------------------------
(* APIClient.request, src/src/lib/api.js:13-88 *)

\* The substring the content-type test looks for (60)
JsonType == "application/json"

\* What one fetch(url, config) can meet.  status 0: fetch itself rejected
\* (network failure).  json: what response.json() yields, None when it rejects.
\* contentType: the value of the content-type header cut into pieces, the
\* substring application/json, where it occurs, a piece of its own; <<>> for
\* an absent header (headers.get gives null).
Responses ==
    { [status |-> 200, statusText |-> "OK", contentType |-> <<JsonType>>,
       json |-> [data |-> "payload"]],
      [status |-> 200, statusText |-> "OK",
       contentType |-> <<JsonType, "; charset=utf-8">>, json |-> [data |-> "payload"]],
      [status |-> 200, statusText |-> "OK", contentType |-> <<JsonType>>,
       json |-> None],
      [status |-> 200, statusText |-> "OK", contentType |-> <<"video/mp4">>,
       json |-> None],
      [status |-> 404, statusText |-> "Not Found", contentType |-> <<JsonType>>,
       json |-> [detail |-> "not found"]],
      [status |-> 404, statusText |-> "Not Found", contentType |-> <<"text/html">>,
       json |-> None],
      [status |-> 422, statusText |-> "", contentType |-> <<JsonType>>,
       json |-> [data |-> "no detail"]],
      [status |-> 503, statusText |-> "Service Unavailable", contentType |-> <<"text/html">>,
       json |-> None],
      [status |-> 500, statusText |-> "Internal Server Error",
       contentType |-> <<JsonType>>, json |-> [detail |-> "crash"]],
      [status |-> 0, statusText |-> "", contentType |-> <<>>, json |-> None] }

ErrText(t) == [error |-> "text", status |-> 0, text |-> t]
\* the SyntaxError response.json() rejects with when the body does not parse
ErrParse == [error |-> "parse", status |-> 0, text |-> "Unexpected token"]
\* `HTTP ${response.status}: ${response.statusText}`
ErrHttp(resp) == [error |-> "http", status |-> resp.status, text |-> resp.statusText]
\* the TypeError a rejected fetch() throws
ErrNetwork == [error |-> "network", status |-> 0, text |-> "Failed to fetch"]

\* error.message, what the pages show of a rejected call
MessageOf(err) ==
    IF err.error = "http" THEN "HTTP " \o ToString(err.status) \o ": " \o err.text
    ELSE err.text

IsNetworkFailure(resp) == resp.status = 0
ResponseOk(resp) == resp.status >= 200 /\ resp.status <= 299
IsClientError(resp) == resp.status >= 400 /\ resp.status < 500
IsServerError(resp) == ~IsNetworkFailure(resp) /\ ~ResponseOk(resp) /\ ~IsClientError(resp)

\* await response.json().catch(() => ({ detail: response.statusText }))
\* then  error.detail || `HTTP ${status}: ${statusText}`   ("" is falsy)
ClientErrorOf(resp) ==
    LET detail == IF resp.json = None THEN resp.statusText
                  ELSE IF "detail" \in DOMAIN resp.json THEN resp.json.detail
                  ELSE ""
    IN  IF detail # "" THEN ErrText(detail) ELSE ErrHttp(resp)

\* contentType && contentType.indexOf("application/json") !== -1
IsJson(contentType) ==
    \E i \in 1..Len(contentType) : contentType[i] = JsonType

\* The value the try block returns for response.ok.
PayloadOf(resp) ==
    IF IsJson(resp.contentType) THEN [value |-> "json", body |-> resp.json]
    ELSE [value |-> "blob", body |-> None]

\* The try block returns: response.ok, and response.json(), where it is
\* called (62), does not reject.  response.blob() (66) resolves.
Succeeds(resp) == ResponseOk(resp) /\ (IsJson(resp.contentType) => resp.json # None)

\* The error the try block throws for a response that is not a success.
ErrorOf(resp) ==
    IF IsNetworkFailure(resp) THEN ErrNetwork
    ELSE IF ResponseOk(resp) THEN ErrParse
    ELSE IF IsClientError(resp) THEN ClientErrorOf(resp)
    ELSE ErrHttp(resp)

\* the body of resp is read with an await before the try block ends:
\* response.json() (51, 62) or response.blob() (66)
ReadsBody(resp) == ResponseOk(resp) \/ IsClientError(resp)

\* mutant: the exponent taken from the incremented attempt
BackoffDelayOffByOne(attempt) == 1000 * Pow(2, attempt)

\* 1000 * Math.pow(2, attempt - 1), attempt already incremented
BackoffDelay(attempt) == 1000 * Pow(2, attempt - 1)

\* mutant: >= for >, one attempt too few
RetriesExhaustedEarly(attempt, maxRetries) == attempt >= maxRetries

\* if (attempt > maxRetries) throw error
RetriesExhausted(attempt, maxRetries) == attempt > maxRetries

\* while (attempt <= maxRetries)
LoopGuard(attempt, maxRetries) == attempt <= maxRetries

HInit ==
    /\ hPc = "idle"
    /\ hMaxRetries = 0
    /\ hAttempt = 0
    /\ hOutcomes = <<>>
    /\ hDelays = <<>>
    /\ hResult = None
    /\ hElapsed = 0

\* request(endpoint, options) called with options.retries = r
\* (r = 0 also stands for an absent retries option: options.retries || 0).
Request(r) ==
    /\ hPc \in {"idle", "returned", "thrown"}
    /\ hPc' = IF LoopGuard(0, r) THEN "fetching" ELSE "returned"
    /\ hMaxRetries' = r
    /\ hAttempt' = 0
    /\ hOutcomes' = <<>>
    /\ hDelays' = <<>>
    /\ hResult' = None
    /\ hElapsed' = 0
    /\ UNCHANGED hOthers

\* The catch block (68-86) entered with the error of resp: the attempt is
\* counted, and the call throws or starts its backoff timer.
Catch(resp) ==
    /\ hAttempt' = hAttempt + 1
    /\ IF RetriesExhausted(hAttempt + 1, hMaxRetries)
       THEN /\ hPc' = "thrown"
            /\ hResult' = ErrorOf(resp)
            /\ UNCHANGED hDelays
       ELSE /\ hPc' = "backoff"
            /\ hDelays' = Append(hDelays, BackoffDelay(hAttempt + 1))
            /\ UNCHANGED hResult

\* await fetch(url, config) (44) settles with resp, and the code runs on to
\* its next await: the read of the body (51, 62, 66), or, for a rejected
\* fetch or a 5xx response, through the catch block to the throw or the
\* backoff timer.
Fetch(resp) ==
    /\ hPc = "fetching"
    /\ hOutcomes' = Append(hOutcomes, resp)
    /\ IF ReadsBody(resp)
       THEN /\ hPc' = "reading"
            /\ UNCHANGED <<hAttempt, hDelays, hResult>>
       ELSE Catch(resp)
    /\ hElapsed' = 0
    /\ UNCHANGED <<hMaxRetries, hOthers>>

\* The read of the body settles: await response.json() (51, 62) or
\* await response.blob() (66); the call returns the payload, or throws into
\* the catch block.
Body ==
    /\ hPc = "reading"
    /\ LET resp == Last(hOutcomes)
       IN  IF Succeeds(resp)
           THEN /\ hPc' = "returned"
                /\ hResult' = PayloadOf(resp)
                /\ UNCHANGED <<hAttempt, hDelays>>
           ELSE Catch(resp)
    /\ UNCHANGED <<hMaxRetries, hOutcomes, hElapsed, hOthers>>

\* The backoff timer fires; the loop tests its guard again.
BackoffElapsed ==
    /\ hPc = "backoff"
    /\ hPc' = IF LoopGuard(hAttempt, hMaxRetries) THEN "fetching" ELSE "returned"
    /\ UNCHANGED <<hMaxRetries, hAttempt, hOutcomes, hDelays, hResult, hElapsed, hOthers>>

\* const timeout = options.timeout || 10000
DefaultTimeout == 10000

\* ms the fetch has been pending after `elapsed` timeouts
ElapsedMs(elapsed) == elapsed * DefaultTimeout

\* Time passes while await fetch(url, config) is pending.  The abort timer
\* of the loop body is commented out (38-40, 46): nothing in request() runs
\* when the timeout has elapsed.
Tick ==
    /\ hPc = "fetching"
    /\ hElapsed < MaxWait
    /\ hElapsed' = hElapsed + 1
    /\ UNCHANGED <<hPc, hMaxRetries, hAttempt, hOutcomes, hDelays, hResult, hOthers>>

\* request() against a server that may answer late or never
TNext ==
    \/ \E r \in 0..MaxRetries : Request(r)
    \/ \E resp \in Responses : Fetch(resp)
    \/ Body
    \/ BackoffElapsed
    \/ Tick

HNext ==
    \/ \E r \in 0..MaxRetries : Request(r)
    \/ \E resp \in Responses : Fetch(resp)
    \/ Body
    \/ BackoffElapsed

----------------------------------------------------------------------------
(* useWebSocket, src/src/hooks/useWebSocket.js *)

RECONNECT_DELAY == 3000

Stages == {"download"}
StageStatuses == {"running", "completed"}
Null == "null"
\* what reading a property the object does not have gives, among strings
NoValue == "undefined"

DownloadIds == {"d1", "d2"}

\* a message the backend gives with a failed download
DiskFull == "No space left on device"

\* Inbound frames (event.data).  kind "malformed": JSON.parse throws.
\* kind "progress": {download_id, progress, status, message}, the message
\* absent or a text.
\* kind "event": a {type, data} frame; it has no download_id field.
Frames ==
    {[kind |-> "malformed"]}
    \cup {[kind |-> "progress", download_id |-> k, progress |-> pr.p, status |-> pr.s,
            message |-> pr.m] :
            k \in DownloadIds,
            pr \in {[p |-> 50, s |-> "downloading", m |-> NoValue],
                    [p |-> 100, s |-> "completed", m |-> NoValue],
                    [p |-> 0, s |-> "failed", m |-> NoValue],
                    [p |-> 0, s |-> "failed", m |-> DiskFull]}}
    \cup {[kind |-> "event", type |-> "workflow_started"]}

\* data.download_id as a property key: an absent field gives the key "undefined"
KeyOf(frame) == IF frame.kind = "progress" THEN frame.download_id ELSE "undefined"

\* The entry built at useWebSocket.js:31-37 (timestamp: Date.now() is left out;
\* absent fields are undefined).
EntryOf(frame) ==
    IF frame.kind = "progress"
    THEN [downloadId |-> frame.download_id, progress |-> frame.progress,
          status |-> frame.status, message |-> frame.message]
    ELSE [downloadId |-> "undefined", progress |-> -1, status |-> "undefined",
          message |-> NoValue]

\* setProgress(prev => ({ ...prev, [data.download_id]: {...} }))
Upsert(prev, frame) ==
    [k \in DOMAIN prev \cup {KeyOf(frame)} |->
        IF k = KeyOf(frame) THEN EntryOf(frame) ELSE prev[k]]

\* mutant: a frame that does not parse empties the map
OnMessageResets(prev, frame) ==
    IF frame.kind = "malformed" THEN <<>> ELSE Upsert(prev, frame)

\* ws.onmessage: try { JSON.parse; setProgress } catch { console.error }
OnMessage(prev, frame) ==
    IF frame.kind = "malformed" THEN prev ELSE Upsert(prev, frame)

\* mutant: clearProgress empties the whole map
ClearedAll(prev, k) == <<>>

\* const newProgress = { ...prev }; delete newProgress[downloadId]
Cleared(prev, k) == [j \in DOMAIN prev \ {k} |-> prev[j]]

\* progress[downloadId] || null
GetProgress(k) == IF k \in DOMAIN progress THEN progress[k] ELSE None

\* a property the object does not have
Undefined == [undefined |-> TRUE]

\* The object the hook returns (94-99).  getProgress and clearProgress are
\* the operators above.
HookReturn ==
    [isConnected |-> isConnected, progress |-> progress,
     getProgress |-> "getProgress", clearProgress |-> "clearProgress"]

\* const { lastMessage } = useWebSocket()
LastMessage ==
    IF "lastMessage" \in DOMAIN HookReturn THEN HookReturn["lastMessage"] ELSE Undefined

\* mutant: onclose never schedules the reconnect
ScheduleReconnectNever(timers) == timers

\* mutant: onerror and onclose both schedule a reconnect
ScheduleReconnectTwice(timers) ==
    timers \o << [delay |-> RECONNECT_DELAY, state |-> "pending"],
                 [delay |-> RECONNECT_DELAY, state |-> "pending"] >>

\* setTimeout(..., RECONNECT_DELAY): one more pending timer
ScheduleReconnect(timers) ==
    Append(timers, [delay |-> RECONNECT_DELAY, state |-> "pending"])

\* connect(): new WebSocket(WS_URL) either yields a socket, stored in wsRef with
\* its four handlers set, or throws, and the catch block schedules a retry.
Connect(sockets, timers, constructed) ==
    IF constructed
    THEN /\ Len(sockets) < MaxSockets
         /\ wSockets' = Append(sockets, "connecting")
         /\ wsRef' = Len(sockets) + 1
         /\ wTimers' = timers
         /\ UNCHANGED <<reconnectTimeoutRef, wConstructFails>>
    ELSE /\ Len(timers) < MaxTimers
         /\ wTimers' = ScheduleReconnect(timers)
         /\ reconnectTimeoutRef' = Len(ScheduleReconnect(timers))
         /\ wConstructFails' = wConstructFails + 1
         /\ wSockets' = sockets
         /\ UNCHANGED wsRef

WInit ==
    /\ wPhase = "created"
    /\ wSockets = <<>>
    /\ wsRef = 0
    /\ wTimers = <<>>
    /\ reconnectTimeoutRef = 0
    /\ isConnected = FALSE
    /\ progress = <<>>
    /\ wConstructFails = 0
    /\ wLatest = <<>>
    /\ wDrop = "none"

\* useEffect(() => { connect(); ... }, [connect]) on mount
Mount(constructed) ==
    /\ wPhase = "created"
    /\ wPhase' = "mounted"
    /\ Connect(wSockets, wTimers, constructed)
    /\ UNCHANGED <<isConnected, progress, wLatest, wDrop, wOthers>>

\* ws.onopen
SocketOpen(s) ==
    /\ wSockets[s] = "connecting"
    /\ wSockets' = [wSockets EXCEPT ![s] = "open"]
    /\ isConnected' = TRUE
    /\ UNCHANGED <<wPhase, wsRef, wTimers, reconnectTimeoutRef, progress, wConstructFails,
                   wLatest, wDrop, wOthers>>

\* ws.onmessage: a message event is only fired on an open socket
OnMessageStep(s, frame) ==
    /\ wSockets[s] = "open"
    /\ progress' = OnMessage(progress, frame)
    /\ wLatest' = IF frame.kind = "progress"
                  THEN [k \in DOMAIN wLatest \cup {frame.download_id} |->
                           IF k = frame.download_id THEN frame ELSE wLatest[k]]
                  ELSE wLatest
    /\ wDrop' = CASE frame.kind = "malformed" -> "dropped"
                  [] frame.kind = "progress" /\ wDrop # "none" -> "processed"
                  [] OTHER -> wDrop
    /\ UNCHANGED <<wPhase, wSockets, wsRef, wTimers, reconnectTimeoutRef, isConnected,
                   wConstructFails>>

SocketMessage(s, frame) == OnMessageStep(s, frame) /\ UNCHANGED wOthers

\* ws.onerror only logs; the browser closes the socket after the error event
SocketError(s) ==
    /\ wSockets[s] \in {"connecting", "open"}
    /\ wSockets' = [wSockets EXCEPT ![s] = "closing"]
    /\ UNCHANGED <<wPhase, wsRef, wTimers, reconnectTimeoutRef, isConnected, progress,
                   wConstructFails, wLatest, wDrop, wOthers>>

\* ws.onclose: the close event of socket s, whatever ended the connection
SocketClose(s) ==
    /\ wSockets[s] \in {"connecting", "open", "closing"}
    /\ Len(wTimers) < MaxTimers
    /\ wSockets' = [wSockets EXCEPT ![s] = "closed"]
    /\ isConnected' = FALSE
    /\ wTimers' = ScheduleReconnect(wTimers)
    /\ reconnectTimeoutRef' = Len(ScheduleReconnect(wTimers))
    /\ UNCHANGED <<wPhase, wsRef, progress, wConstructFails, wLatest, wDrop, wOthers>>

\* A pending reconnect timer fires: connect()
TimerFire(t, constructed) ==
    /\ wTimers[t].state = "pending"
    /\ Connect(wSockets, [wTimers EXCEPT ![t].state = "fired"], constructed)
    /\ UNCHANGED <<wPhase, isConnected, progress, wLatest, wDrop, wOthers>>

\* clearTimeout(reconnectTimeoutRef.current): no effect on a timer that fired
ClearTimeout(timers, ref) ==
    IF ref # 0 /\ timers[ref].state = "pending"
    THEN [timers EXCEPT ![ref].state = "cleared"] ELSE timers

\* wsRef.current.close(): no effect on a socket already closing or closed
CloseSocket(sockets, ref) ==
    IF ref # 0 /\ sockets[ref] \in {"connecting", "open"}
    THEN [sockets EXCEPT ![ref] = "closing"] ELSE sockets

\* The effect's cleanup, run when the consumer unmounts
Unmount ==
    /\ wPhase = "mounted"
    /\ wPhase' = "unmounted"
    /\ wTimers' = ClearTimeout(wTimers, reconnectTimeoutRef)
    /\ wSockets' = CloseSocket(wSockets, wsRef)
    /\ UNCHANGED <<wsRef, reconnectTimeoutRef, isConnected, progress, wConstructFails,
                   wLatest, wDrop, wOthers>>

\* clearProgress(downloadId), called by the mounted consumer
ClearProgress(k) ==
    /\ wPhase = "mounted"
    /\ progress' = Cleared(progress, k)
    /\ wLatest' = [j \in DOMAIN wLatest \ {k} |-> wLatest[j]]
    /\ UNCHANGED <<wPhase, wSockets, wsRef, wTimers, reconnectTimeoutRef, isConnected,
                   wConstructFails, wDrop, wOthers>>

WNext ==
    \/ \E c \in BOOLEAN : Mount(c)
    \/ \E s \in 1..Len(wSockets) : SocketOpen(s)
    \/ \E s \in 1..Len(wSockets) : \E f \in Frames : SocketMessage(s, f)
    \/ \E s \in 1..Len(wSockets) : SocketError(s)
    \/ \E s \in 1..Len(wSockets) : SocketClose(s)
    \/ \E t \in 1..Len(wTimers) : \E c \in BOOLEAN : TimerFire(t, c)
    \/ Unmount
    \/ \E k \in DownloadIds : ClearProgress(k)

----------------------------------------------------------------------------
(* WorkflowBuilder, src/src/pages/WorkflowBuilder.jsx *)

\* A node object is [id, type, data]; data is an object whose fields config,
\* isStart and isActive may each be absent (position and label are left out).
\* An id is <<prefix, number>>: `${type}-${Date.now()}` is <<type, now>>.
NodeTypes == {"scan", "download", "burn", "upload"}

\* the palette entry dragged in a run (the type only names the node)
DroppedTypes == {"scan"}

NoId == <<"", 0>>

\* { ...obj, [field]: value }
With(obj, field, value) ==
    [f \in DOMAIN obj \cup {field} |-> IF f = field THEN value ELSE obj[f]]

Field(obj, field, default) == IF field \in DOMAIN obj THEN obj[field] ELSE default

\* data.isStart read as a condition: undefined is falsy
IsStartOf(node) == Field(node.data, "isStart", FALSE)
IsActiveOf(node) == Field(node.data, "isActive", FALSE)

Ids(nds) == {nds[i].id : i \in 1..Len(nds)}

Elems(seq) == {seq[i] : i \in 1..Len(seq)}

\* getIncomers(node, nodes, edges) of @xyflow/react: the nodes that are the
\* source of an edge whose target is node.id
GetIncomers(node, nds, eds) ==
    LET incomersIds == {e.source : e \in {x \in Elems(eds) : x.target = node.id}}
    IN  SelectSeq(nds, LAMBDA n : n.id \in incomersIds)

\* addEdge(params, eds) of @xyflow/react: the edge gets the id
\* `xy-edge__${source}-${target}`; a connection that already exists (same
\* source and target) returns eds itself.
NewEdge(source, target) == [id |-> "xy-edge__", source |-> source, target |-> target]

ConnectionExists(source, target, eds) ==
    \E e \in Elems(eds) : e.source = source /\ e.target = target

AddEdge(source, target, eds) ==
    IF ConnectionExists(source, target, eds) THEN eds
    ELSE eds \o <<NewEdge(source, target)>>

\* Which array object the edges state holds: the module's initialEdges, the
\* array inside the list entry of a workflow, or an array of the editor's own
\* (one that no list entry and no constant holds).
InitialEdgesRef == [array |-> "initialEdges", id |-> 0]
OwnRef == [array |-> "own", id |-> 0]
ListRef(id) == [array |-> "workflows", id |-> id]

\* setWorkflows(data) (173): the list is parsed anew, and the array the edges
\* state took from an entry of the old list is in no entry of the new one
Refetched(ref) == IF ref.array = "workflows" THEN OwnRef ELSE ref

\* The updater of the isStart effect (94-102); nodes and edges are the values
\* of the render the effect belongs to.
RecomputeIsStart(nds, closureNodes, closureEdges) ==
    [i \in 1..Len(nds) |->
        LET incoming == GetIncomers(nds[i], closureNodes, closureEdges)
            isStart == Len(incoming) = 0
        IN  IF "isStart" \notin DOMAIN nds[i].data \/ nds[i].data.isStart # isStart
            THEN [nds[i] EXCEPT !.data = With(nds[i].data, "isStart", isStart)]
            ELSE nds[i]]

\* The render that follows a handler: the isStart effect runs when one of its
\* dependencies [edges, setNodes, nodes.length] differs from the last render's.
\* fresh: the handler made a new edges array.
EffectRuns(newNodes, newRef, fresh) ==
    fresh \/ newRef # edgesRef \/ Len(newNodes) # Len(nodes)

Rendered(newNodes, newEdges, newRef, fresh) ==
    IF EffectRuns(newNodes, newRef, fresh)
    THEN RecomputeIsStart(newNodes, newNodes, newEdges)
    ELSE newNodes

\* The updater of the onDelete effect (115-120), which runs after a render in
\* which handleDeleteNode is another function: after every change of
\* selectedNode (106-112).  The value names the function.
AttachOnDelete(nds) ==
    [i \in 1..Len(nds) |->
        [nds[i] EXCEPT !.data = With(nds[i].data, "onDelete", "handleDeleteNode")]]

\* if (data.onDelete) (27)
HasOnDelete(node) == "onDelete" \in DOMAIN node.data

\* the nodes after the render that follows a handler which set the selection
\* to newSelected
Reattached(nds, newSelected) ==
    IF newSelected # selectedNode THEN AttachOnDelete(nds) ELSE nds

\* nds.filter((node) => node.id !== nodeId)
WithoutNode(nds, nodeId) == SelectSeq(nds, LAMBDA node : node.id # nodeId)

\* mutant: the cascade forgets the edges that leave the node
WithoutEdgesOfTargetOnly(eds, nodeId) ==
    SelectSeq(eds, LAMBDA edge : edge.target # nodeId)

\* eds.filter((edge) => edge.source !== nodeId && edge.target !== nodeId)
WithoutEdgesOf(eds, nodeId) ==
    SelectSeq(eds, LAMBDA edge : edge.source # nodeId /\ edge.target # nodeId)

\* The workflow PreWorkflow2 creates (src/unnamed/part_003:49-109): its nodes
\* carry no isStart and no isActive.
QuickNode(prefix, type, config) ==
    [id |-> <<prefix, 1>>, type |-> type, data |-> [config |-> config]]

QuickWorkflowData ==
    [nodes |-> << QuickNode("scan_", "scan", [url |-> "url", video_limit |-> "all"]),
                  QuickNode("download_", "download",
                            [download_subtitles |-> TRUE, subtitle_language |-> "en"]),
                  QuickNode("burn_", "burn",
                            [add_watermark |-> TRUE, watermark_text |-> "text"]),
                  QuickNode("upload_", "upload",
                            [platform |-> "youtube", account |-> 1]) >>,
     edges |-> << [id |-> "e1-2", source |-> <<"scan_", 1>>, target |-> <<"download_", 1>>],
                  [id |-> "e2-3", source |-> <<"download_", 1>>, target |-> <<"burn_", 1>>],
                  [id |-> "e3-4", source |-> <<"burn_", 1>>, target |-> <<"upload_", 1>>] >>]

QuickWorkflowId == 100

\* The editor as it is after mounting: empty canvas, workflow list fetched.
\* The backend holds nothing or the workflow PreWorkflow2 created earlier.
GInit ==
    /\ nodes = <<>>
    /\ edges = <<>>
    /\ edgesRef = InitialEdgesRef
    /\ selectedNode = None
    /\ currentWorkflow = 0
    /\ workflows \in { <<>>, <<[id |-> QuickWorkflowId, workflow_data |-> QuickWorkflowData]>> }
    /\ now = 1
    /\ gLast = [op |-> "mount", id |-> NoId, removed |-> 0]
    /\ isSaving = FALSE
    /\ saveCall = None
    /\ gSaves = 0
    /\ gCreates = 0
    /\ gCreated = 0
    /\ gBackend = workflows
    /\ delCalls = <<>>
    /\ gDeletes = 0

\* onDrop (223-249): a node of the dragged type is appended
AddNode(type) ==
    /\ now <= MaxDrops
    /\ Len(nodes) < MaxNodes
    /\ LET newNode == [id |-> <<type, now>>, type |-> type, data |-> [config |-> <<>>]]
           nds == nodes \o <<newNode>>
       IN  nodes' = Rendered(nds, edges, edgesRef, FALSE)
    /\ now' = now + 1      \* drops are user-paced: the clock has moved on by the next one
    /\ gLast' = [op |-> "addNode", id |-> NoId, removed |-> 0]
    /\ UNCHANGED <<edges, edgesRef, selectedNode, currentWorkflow, workflows, svars, gOthers>>

\* onConnect (188-191): the user joins the handles of two nodes on the canvas
ConnectNodes(source, target) ==
    /\ source \in Ids(nodes) /\ target \in Ids(nodes)
    /\ Len(edges) < MaxEdges
    /\ LET eds == AddEdge(source, target, edges)
           fresh == eds # edges
       IN  /\ edges' = eds
           /\ edgesRef' = IF fresh THEN OwnRef ELSE edgesRef
           /\ nodes' = Rendered(nodes, eds, edgesRef', fresh)
    /\ gLast' = [op |-> "connect", id |-> NoId, removed |-> 0]
    /\ UNCHANGED <<selectedNode, currentWorkflow, workflows, now, svars, gOthers>>

\* the ids handleDeleteNode can be called with: a node's delete button
\* calls data.onDelete(id) if the node has one (25-30), and the Delete key
\* calls it for the selected node (123-131), on the canvas or not
Deletable ==
    {nodes[i].id : i \in {j \in 1..Len(nodes) : HasOnDelete(nodes[j])}}
    \cup (IF selectedNode # None THEN {selectedNode.id} ELSE {})

\* selectedNode after handleDeleteNode(nodeId) (109-111)
Deselected(selected, nodeId) ==
    IF selected # None /\ selected.id = nodeId THEN None ELSE selected

\* handleDeleteNode (106-112), from a node's delete button or the Delete key
DeleteNode(nodeId) ==
    /\ nodeId \in Deletable
    /\ LET nds == WithoutNode(nodes, nodeId)
           eds == WithoutEdgesOf(edges, nodeId)
       IN  /\ edges' = eds
           /\ edgesRef' = OwnRef
           /\ selectedNode' = Deselected(selectedNode, nodeId)
           /\ nodes' = Reattached(Rendered(nds, eds, OwnRef, TRUE), selectedNode')
    /\ gLast' = [op |-> "deleteNode", id |-> nodeId,
                 removed |-> Len(edges) - Len(WithoutEdgesOf(edges, nodeId))]
    /\ UNCHANGED <<currentWorkflow, workflows, now, svars, gOthers>>

\* The Backspace key with the element `removed` selected on the canvas:
\* ReactFlow takes the element off through onNodesChange / onEdgesChange
\* (423-424), a node together with its edges, and the keydown handler of
\* the window (123-131) calls handleDeleteNode for the selected node.
\* flowNodes, flowEdges: what ReactFlow left.
Backspace(flowNodes, flowEdges, removed) ==
    /\ LET handled == selectedNode # None
           nds == IF handled THEN WithoutNode(flowNodes, selectedNode.id) ELSE flowNodes
           eds == IF handled THEN WithoutEdgesOf(flowEdges, selectedNode.id) ELSE flowEdges
           fresh == handled \/ Len(flowEdges) # Len(edges)
           ref == IF fresh THEN OwnRef ELSE edgesRef
       IN  /\ edges' = eds
           /\ edgesRef' = ref
           /\ selectedNode' = None
           /\ nodes' = Reattached(Rendered(nds, eds, ref, fresh), None)
    /\ gLast' = [op |-> "backspace", id |-> removed, removed |-> Len(edges) - Len(edges')]
    /\ UNCHANGED <<currentWorkflow, workflows, now, svars, gOthers>>

\* Backspace with the node nodeId selected on the canvas
FlowRemoveNode(nodeId) ==
    /\ nodeId \in Ids(nodes)
    /\ Backspace(WithoutNode(nodes, nodeId), WithoutEdgesOf(edges, nodeId), nodeId)

\* Backspace with the edge at index k selected on the canvas
FlowRemoveEdge(k) ==
    /\ k \in 1..Len(edges)
    /\ Backspace(nodes, SelectSeq(edges, LAMBDA edge : edge # edges[k]), NoId)

\* onNodeClick (193-195).  ReactFlow hands the handler a copy of the node, an
\* object other than the one selected before: the selection changes and the
\* onDelete effect runs.
NodeClick(i) ==
    /\ i \in 1..Len(nodes)
    /\ selectedNode' = nodes[i]
    /\ nodes' = AttachOnDelete(nodes)
    /\ gLast' = [op |-> "nodeClick", id |-> NoId, removed |-> 0]
    /\ UNCHANGED <<edges, edgesRef, currentWorkflow, workflows, now, svars, gOthers>>

\* the close button of the configuration panel (525)
ClosePanel ==
    /\ selectedNode # None
    /\ selectedNode' = None
    /\ nodes' = AttachOnDelete(nodes)
    /\ gLast' = [op |-> "closePanel", id |-> NoId, removed |-> 0]
    /\ UNCHANGED <<edges, edgesRef, currentWorkflow, workflows, now, svars, gOthers>>

\* handleLoad (285-293) for the list entry w
Load(w) ==
    /\ w \in 1..Len(workflows)
    /\ currentWorkflow' = workflows[w].id
    /\ IF "workflow_data" \in DOMAIN workflows[w]      \* if (workflow.workflow_data)
       THEN LET nds == Field(workflows[w].workflow_data, "nodes", <<>>)
                eds == Field(workflows[w].workflow_data, "edges", <<>>)
                fresh == "edges" \notin DOMAIN workflows[w].workflow_data   \* || []
                ref == IF fresh THEN OwnRef ELSE ListRef(workflows[w].id)
            IN  /\ edges' = eds
                /\ edgesRef' = ref
                /\ nodes' = Rendered(nds, eds, ref, fresh)
       ELSE UNCHANGED <<nodes, edges, edgesRef>>
    /\ gLast' = [op |-> "load", id |-> NoId, removed |-> 0]
    /\ gCreates' = 0 /\ gCreated' = 0
    /\ UNCHANGED <<selectedNode, workflows, now, isSaving, saveCall, gSaves,
                   gBackend, delCalls, gDeletes, gOthers>>

\* handleNew (295-300)
New ==
    /\ currentWorkflow' = 0
    /\ edges' = <<>>
    /\ edgesRef' = InitialEdgesRef
    /\ nodes' = Rendered(<<>>, <<>>, InitialEdgesRef, FALSE)
    /\ gLast' = [op |-> "new", id |-> NoId, removed |-> 0]
    /\ gCreates' = 0 /\ gCreated' = 0
    /\ UNCHANGED <<selectedNode, workflows, now, isSaving, saveCall, gSaves,
                   gBackend, delCalls, gDeletes, gOthers>>

(* The editing session: the runtime overlay, the configuration panel and     *)
(* persistence (save, load, new, delete) against a backend that holds two    *)
(* workflows, one of them without a stored graph.                            *)

\* A workflow as handleSave stored it earlier: scan -> download
StoredNode(prefix, type, config, isStart) ==
    [id |-> <<prefix, 0>>, type |-> type,
     data |-> [config |-> config, isStart |-> isStart, isActive |-> FALSE]]

StoredWorkflowData ==
    [nodes |-> << StoredNode("scan", "scan", [video_limit |-> "all"], TRUE),
                  StoredNode("download", "download", [download_subtitles |-> TRUE], FALSE) >>,
     edges |-> << NewEdge(<<"scan", 0>>, <<"download", 0>>) >>]

StoredWorkflowId == 101

\* a workflow whose workflow_data is null
BareWorkflowId == 102

\* the id the backend gives the n-th workflow this session creates
CreatedId(n) == 200 + n

StoredList ==
    << [id |-> StoredWorkflowId, workflow_data |-> StoredWorkflowData],
       [id |-> BareWorkflowId] >>

\* the node id of an event that belongs to no node on the canvas
ForeignNodeId == <<"ghost", 0>>

NodeEventTypes == {"node_started", "node_completed", "workflow_completed", "workflow_failed"}

\* { ...node, data: { ...node.data, isActive } }
WithActive(node, isActive) == [node EXCEPT !.data = With(node.data, "isActive", isActive)]

\* mutant: node_started marks every node
OverlayAll(nds, type, nodeId) ==
    IF type = "node_started" THEN [i \in 1..Len(nds) |-> WithActive(nds[i], TRUE)]
    ELSE [i \in 1..Len(nds) |-> WithActive(nds[i], FALSE)]

\* The setNodes updaters of ws.onmessage (145-162)
Overlay(nds, type, nodeId) ==
    CASE type = "node_started" ->
            [i \in 1..Len(nds) |-> IF nds[i].id = nodeId THEN WithActive(nds[i], TRUE)
                                   ELSE nds[i]]
      [] type = "node_completed" ->
            [i \in 1..Len(nds) |-> IF nds[i].id = nodeId THEN WithActive(nds[i], FALSE)
                                   ELSE nds[i]]
      [] type \in {"workflow_completed", "workflow_failed"} ->
            [i \in 1..Len(nds) |-> WithActive(nds[i], FALSE)]
      [] OTHER -> nds

\* ws.onmessage (140-163): a workflow event reaches the editor
NodeEvent(type, nodeId) ==
    /\ type \in NodeEventTypes
    /\ nodes' = Overlay(nodes, type, nodeId)
    /\ gLast' = [op |-> type, id |-> nodeId, removed |-> 0]
    /\ UNCHANGED <<edges, edgesRef, selectedNode, currentWorkflow, workflows, now, svars, gOthers>>

ConfigKeys == {"url"}
ConfigValues == {"a", "b"}

\* updatedNode (203-209): config: { ...node.data.config, [key]: value }
MergedConfig(node, key, value) ==
    [node EXCEPT !.data = With(node.data, "config", With(node.data.config, key, value))]

\* updateNodeConfig (197-216), called by the configuration panel, which is
\* rendered while selectedNode is set (518)
UpdateNodeConfig(key, value) ==
    /\ selectedNode # None
    /\ LET matched == \E i \in 1..Len(nodes) : nodes[i].id = selectedNode.id
           nds == [i \in 1..Len(nodes) |->
                     IF nodes[i].id = selectedNode.id
                     THEN MergedConfig(nodes[i], key, value) ELSE nodes[i]]
       IN  /\ selectedNode' =
                 IF matched
                 THEN LET i == CHOOSE j \in 1..Len(nodes) : nodes[j].id = selectedNode.id
                      IN  MergedConfig(nodes[i], key, value)
                 ELSE selectedNode
           \* updatedNode is a new object: the selection changed, the
           \* onDelete effect runs
           /\ nodes' = IF matched THEN AttachOnDelete(nds) ELSE nds
    /\ gLast' = [op |-> "updateNodeConfig", id |-> selectedNode.id, removed |-> 0]
    /\ UNCHANGED <<edges, edgesRef, currentWorkflow, workflows, now, svars, gOthers>>

\* mutant: the document keeps the overlay
DocumentOfAsIs(nds, eds) == [nodes |-> nds, edges |-> eds]

\* workflowData (254-257)
DocumentOf(nds, eds) ==
    [nodes |-> [i \in 1..Len(nds) |-> WithActive(nds[i], FALSE)], edges |-> eds]

\* mutant: save always creates
IsBoundNever(workflow) == FALSE

\* if (currentWorkflow)
IsBound(workflow) == workflow # 0

\* handleSave up to its first await (251-272); the button is disabled while
\* isSaving
SaveClick ==
    /\ ~isSaving
    /\ gSaves < MaxSaves
    /\ isSaving' = TRUE
    /\ saveCall' = [kind |-> IF IsBound(currentWorkflow) THEN "update" ELSE "create",
                    id |-> currentWorkflow,
                    workflow_data |-> DocumentOf(nodes, edges),
                    phase |-> "save"]
    /\ gSaves' = gSaves + 1
    /\ gCreates' = IF IsBound(currentWorkflow) THEN gCreates ELSE gCreates + 1
    /\ gLast' = [op |-> "save", id |-> NoId, removed |-> 0]
    /\ UNCHANGED <<nodes, edges, edgesRef, selectedNode, currentWorkflow, workflows, now,
                   gCreated, gBackend, delCalls, gDeletes, gOthers>>

\* JSON.stringify(data) (api.js:100, 108): a function-valued property is left
\* out of the body
Json(doc) ==
    [nodes |-> [i \in 1..Len(doc.nodes) |->
                  [doc.nodes[i] EXCEPT
                      !.data = [f \in DOMAIN doc.nodes[i].data \ {"onDelete"} |->
                                  doc.nodes[i].data[f]]]],
     edges |-> doc.edges]

\* the list after the backend stored the document under id
Stored(list, id, data) ==
    IF \E w \in 1..Len(list) : list[w].id = id
    THEN [w \in 1..Len(list) |->
            IF list[w].id = id THEN [id |-> id, workflow_data |-> data] ELSE list[w]]
    ELSE list \o <<[id |-> id, workflow_data |-> data]>>

\* the ids of the workflows of a list
WorkflowIds(list) == {list[w].id : w \in 1..Len(list)}

\* handleSave after its first await (261-274): the backend stored the
\* document and answered; the workflow it returned is bound, and
\* fetchWorkflows is called.  A workflow that was deleted cannot be updated.
SaveOk ==
    /\ saveCall # None
    /\ saveCall.phase = "save"
    /\ saveCall.kind = "update" => saveCall.id \in WorkflowIds(gBackend)
    /\ LET id == IF saveCall.kind = "create" THEN CreatedId(gSaves) ELSE saveCall.id
       IN  /\ currentWorkflow' = id
           /\ gBackend' = Stored(gBackend, id, Json(saveCall.workflow_data))
    /\ gCreated' = IF saveCall.kind = "create" THEN gCreated + 1 ELSE gCreated
    /\ saveCall' = [saveCall EXCEPT !.phase = "list"]
    /\ gLast' = [op |-> "saveOk", id |-> NoId, removed |-> 0]
    /\ UNCHANGED <<nodes, edges, edgesRef, selectedNode, workflows, now,
                   isSaving, gSaves, gCreates, delCalls, gDeletes, gOthers>>

\* handleSave: the save request failed (277-282)
SaveFail ==
    /\ saveCall # None
    /\ saveCall.phase = "save"
    /\ isSaving' = FALSE
    /\ saveCall' = None
    /\ gLast' = [op |-> "saveFail", id |-> NoId, removed |-> 0]
    /\ UNCHANGED <<nodes, edges, edgesRef, selectedNode, currentWorkflow, workflows, now,
                   gSaves, gCreates, gCreated, gBackend, delCalls, gDeletes, gOthers>>

\* fetchWorkflows (170-177) settles: setWorkflows(data) with the backend's
\* list, or the catch, which leaves the list as it is
ListFetched(ok) ==
    /\ workflows' = IF ok THEN gBackend ELSE workflows
    /\ edgesRef' = IF ok THEN Refetched(edgesRef) ELSE edgesRef

\* handleSave after await fetchWorkflows() (275-282)
SaveList(ok) ==
    /\ saveCall # None
    /\ saveCall.phase = "list"
    /\ ListFetched(ok)
    /\ isSaving' = FALSE
    /\ saveCall' = None
    /\ gLast' = [op |-> IF ok THEN "saveListOk" ELSE "saveListFail", id |-> NoId, removed |-> 0]
    /\ UNCHANGED <<nodes, edges, selectedNode, currentWorkflow, now,
                   gSaves, gCreates, gCreated, gBackend, delCalls, gDeletes, gOthers>>

\* handleDelete up to its first await (302-307), confirmed by the user, on
\* the entry w of the Load menu; currentWorkflow is the one of this render
DeleteClick(w) ==
    /\ w \in 1..Len(workflows)
    /\ gDeletes < MaxDeletes
    /\ delCalls' = Append(delCalls, [id |-> workflows[w].id,
                                     bound |-> currentWorkflow = workflows[w].id,
                                     phase |-> "delete"])
    /\ gDeletes' = gDeletes + 1
    /\ gLast' = [op |-> "deleteClick", id |-> NoId, removed |-> 0]
    /\ UNCHANGED <<nodes, edges, edgesRef, selectedNode, currentWorkflow, workflows, now,
                   isSaving, saveCall, gSaves, gCreates, gCreated, gBackend, gOthers>>

\* handleDelete after its first await (307-311): the backend deleted the
\* workflow; the workflow that was bound at the click goes through
\* handleNew; fetchWorkflows is called
DeleteOk(k) ==
    /\ k \in 1..Len(delCalls)
    /\ delCalls[k].phase = "delete"
    /\ delCalls[k].id \in WorkflowIds(gBackend)
    /\ gBackend' = SelectSeq(gBackend, LAMBDA x : x.id # delCalls[k].id)
    /\ IF delCalls[k].bound
       THEN /\ currentWorkflow' = 0
            /\ edges' = <<>>
            /\ edgesRef' = InitialEdgesRef
            /\ nodes' = Rendered(<<>>, <<>>, InitialEdgesRef, FALSE)
            /\ gCreates' = 0 /\ gCreated' = 0
       ELSE UNCHANGED <<currentWorkflow, edges, edgesRef, nodes, gCreates, gCreated>>
    /\ delCalls' = [delCalls EXCEPT ![k].phase = "list"]
    /\ gLast' = [op |-> "deleteOk", id |-> NoId, removed |-> 0]
    /\ UNCHANGED <<selectedNode, workflows, now, isSaving, saveCall, gSaves, gDeletes, gOthers>>

\* handleDelete: the delete request failed (312-314)
DeleteFail(k) ==
    /\ k \in 1..Len(delCalls)
    /\ delCalls[k].phase = "delete"
    /\ delCalls' = RemoveAt(delCalls, k)
    /\ gLast' = [op |-> "deleteFail", id |-> NoId, removed |-> 0]
    /\ UNCHANGED <<nodes, edges, edgesRef, selectedNode, currentWorkflow, workflows, now,
                   isSaving, saveCall, gSaves, gCreates, gCreated, gBackend,
                   gDeletes, gOthers>>

\* handleDelete after await fetchWorkflows() (311)
DeleteList(k, ok) ==
    /\ k \in 1..Len(delCalls)
    /\ delCalls[k].phase = "list"
    /\ ListFetched(ok)
    /\ delCalls' = RemoveAt(delCalls, k)
    /\ gLast' = [op |-> IF ok THEN "deleteListOk" ELSE "deleteListFail", id |-> NoId, removed |-> 0]
    /\ UNCHANGED <<nodes, edges, selectedNode, currentWorkflow, now, isSaving, saveCall,
                   gSaves, gCreates, gCreated, gBackend, gDeletes, gOthers>>

\* The editor after mounting with the backend's list fetched
Mounted(list) ==
    /\ nodes = <<>>
    /\ edges = <<>>
    /\ edgesRef = InitialEdgesRef
    /\ selectedNode = None
    /\ currentWorkflow = 0
    /\ workflows = list
    /\ now = 1
    /\ gLast = [op |-> "mount", id |-> NoId, removed |-> 0]
    /\ isSaving = FALSE
    /\ saveCall = None
    /\ gSaves = 0
    /\ gCreates = 0
    /\ gCreated = 0
    /\ gBackend = list
    /\ delCalls = <<>>
    /\ gDeletes = 0

BInit == Mounted(StoredList)

\* the backend holds the one workflow with a stored graph
RInit == Mounted(<<StoredList[1]>>)

\* persistence: the canvas is filled by loading, a run marks nodes, the user
\* opens the panel, saves and starts over
BNext ==
    \/ \E w \in 1..Len(workflows) : Load(w)
    \/ New
    \/ \E id \in Ids(nodes) \cup {ForeignNodeId} : NodeEvent("node_started", id)
    \/ \E i \in 1..Len(nodes) : NodeClick(i)
    \/ SaveClick
    \/ SaveOk
    \/ SaveFail
    \/ \E ok \in BOOLEAN : SaveList(ok)

\* the binding: the user loads, starts over, saves and deletes workflows
\* while requests are in flight
RNext ==
    \/ \E w \in 1..Len(workflows) : Load(w)
    \/ New
    \/ SaveClick
    \/ SaveOk
    \/ SaveFail
    \/ \E ok \in BOOLEAN : SaveList(ok)
    \/ \E w \in 1..Len(workflows) : DeleteClick(w)
    \/ \E k \in 1..Len(delCalls) : DeleteOk(k)
    \/ \E k \in 1..Len(delCalls) : DeleteFail(k)
    \/ \E k \in 1..Len(delCalls) : \E ok \in BOOLEAN : DeleteList(k, ok)

\* the runtime overlay and the configuration panel
PNext ==
    \/ \E i \in 1..Len(nodes) : NodeClick(i)
    \/ \E w \in 1..Len(workflows) : Load(w)
    \/ New
    \/ \E type \in NodeEventTypes : \E id \in Ids(nodes) \cup {ForeignNodeId} :
            NodeEvent(type, id)
    \/ \E key \in ConfigKeys : \E value \in ConfigValues : UpdateNodeConfig(key, value)
    \/ ClosePanel

GNext ==
    \/ \E type \in DroppedTypes : AddNode(type)
    \/ \E a \in Ids(nodes) : \E b \in Ids(nodes) : ConnectNodes(a, b)
    \/ \E id \in Deletable : DeleteNode(id)
    \/ \E id \in Ids(nodes) : FlowRemoveNode(id)
    \/ \E k \in 1..Len(edges) : FlowRemoveEdge(k)
    \/ \E i \in 1..Len(nodes) : NodeClick(i)
    \/ ClosePanel
    \/ \E w \in 1..Len(workflows) : Load(w)
    \/ New

----------------------------------------------------------------------------
(* The execution views: WorkflowProgress (src/src/pages/WorkflowProgress.jsx) *)
(* and WorkflowExecutionDetails (src/unnamed/part_004)                        *)

Views == {"WorkflowProgress", "WorkflowExecutionDetails"}

\* the execution id in the route, and another execution on the shared stream
ViewedExecution == 42
OtherExecution == 99
ExecutionIds == {ViewedExecution, OtherExecution}

\* A video object as the backend emits it when the scan completes
VideoPending ==
    [status |-> "pending", current_stage |-> Null, stages |-> [s \in Stages |-> "pending"]]

VideoCompleted ==
    [status |-> "completed", current_stage |-> Null,
     stages |-> [s \in Stages |-> "completed"]]

ListOf(video, n) == [i \in 1..n |-> video]

\* data.videos of a videos_scanned event
ScannedLists == {ListOf(VideoPending, n) : n \in 0..MaxVideos}

\* Stream frames {type, data}; a field a type does not carry holds a filler.
Msg(type, eid, index, stage, status, error, list) ==
    [type |-> type, execution_id |-> eid, video_index |-> index, stage |-> stage,
     status |-> status, error |-> error, videos |-> list]

\* video_index is 0-based; MaxVideos is past the end of every list
VideoIndexes == 0..MaxVideos

Messages ==
    {Msg(t, e, 0, "", "", "", <<>>) :
        t \in {"log", "workflow_completed", "workflow_failed"}, e \in ExecutionIds}
    \cup {Msg("videos_scanned", e, 0, "", "", "", l) : e \in ExecutionIds, l \in ScannedLists}
    \cup {Msg(t, e, i, "", "", "", <<>>) :
        t \in {"video_started", "video_completed"}, e \in ExecutionIds, i \in VideoIndexes}
    \cup {Msg("video_stage_update", e, i, sg, st, "", <<>>) :
        e \in ExecutionIds, i \in VideoIndexes, sg \in Stages, st \in StageStatuses}
    \cup {Msg("video_failed", e, i, "", "", "boom", <<>>) :
        e \in ExecutionIds, i \in VideoIndexes}

\* prev.map((v, idx) => idx === index ? f(v) : v), f given by its result on v
MapAt(list, index, changed) ==
    [k \in 1..Len(list) |-> IF k - 1 = index THEN changed[k] ELSE list[k]]

\* WorkflowProgress, the lastMessage effect (24-85): the new videos state.
\* executionId is parseInt of the route parameter.
WPVideos(m, executionId, prev) ==
    IF m.execution_id # executionId THEN prev
    ELSE CASE m.type = "videos_scanned" -> m.videos
           [] m.type = "video_started" ->
                MapAt(prev, m.video_index,
                      [k \in 1..Len(prev) |-> With(prev[k], "status", "processing")])
           [] m.type = "video_stage_update" ->
                MapAt(prev, m.video_index,
                      [k \in 1..Len(prev) |->
                          With(With(prev[k], "current_stage",
                                    IF m.status = "running" THEN m.stage
                                    ELSE Field(prev[k], "current_stage", NoValue)),
                               "stages",
                               With(Field(prev[k], "stages", <<>>), m.stage, m.status))])
           [] m.type = "video_completed" ->
                MapAt(prev, m.video_index,
                      [k \in 1..Len(prev) |->
                          With(With(prev[k], "status", "completed"), "current_stage", Null)])
           [] m.type = "video_failed" ->
                MapAt(prev, m.video_index,
                      [k \in 1..Len(prev) |->
                          With(With(prev[k], "status", "failed"), "error", m.error)])
           [] OTHER -> prev

\* WorkflowProgress: does the event call loadData()?
WPRefetches(m, executionId) ==
    m.type \in {"workflow_completed", "workflow_failed"} /\ m.execution_id = executionId

\* WorkflowProgress, the effect as the page runs it: lastMessage is what the
\* hook's return value holds under that name (16), and without one the
\* effect returns (25)
WPEffect(lastMessage, executionId, prev) ==
    IF lastMessage \in {Undefined, None} THEN prev
    ELSE WPVideos(lastMessage, executionId, prev)

\* if (updated[index]) { ... }: the entry exists
HasEntry(list, index) == index + 1 \in 1..Len(list)

\* mutant: video_failed records the status but not the error
WEDFailedNoError(v, m) == With(v, "status", "failed")

\* WorkflowExecutionDetails, video_failed (76-83): the entry after the event
WEDFailed(v, m) == With(With(v, "status", "failed"), "error", m.error)

\* mutant: video_completed leaves the current stage as it is
WEDCompletedKeepsStage(v) == With(v, "status", "completed")

\* WorkflowExecutionDetails, video_completed (66-73): the entry after the event
WEDCompleted(v) == With(With(v, "status", "completed"), "current_stage", Null)

\* WorkflowExecutionDetails, video_stage_update (54-63): the entry after the event
WEDStageUpdate(v, m) ==
    LET staged == With(v, "current_stage", m.stage)
    IN  IF "stages" \in DOMAIN v
        THEN With(staged, "stages", With(v.stages, m.stage, m.status))
        ELSE staged

\* mutant: video_started marks every entry
WEDVideosMarksAll(m, prev) ==
    IF m.type = "video_started"
    THEN [k \in 1..Len(prev) |-> With(prev[k], "status", "processing")]
    ELSE prev

\* WorkflowExecutionDetails, ws.onmessage (28-87): the new scannedVideos state.
\* No branch reads message.data.execution_id.
WEDVideos(m, prev) ==
    CASE m.type = "videos_scanned" -> m.videos
      [] m.type \in {"video_started", "video_stage_update", "video_completed",
                     "video_failed"} /\ HasEntry(prev, m.video_index) ->
            [prev EXCEPT ![m.video_index + 1] =
                CASE m.type = "video_started" -> With(@, "status", "processing")
                  [] m.type = "video_stage_update" -> WEDStageUpdate(@, m)
                  [] m.type = "video_completed" -> WEDCompleted(@)
                  [] OTHER -> WEDFailed(@, m)]
      [] OTHER -> prev

\* `[${message.data.timestamp}] ${message.data.message}`
LogLine == "[t] message"

\* WorkflowExecutionDetails, log (31-39): the new execution state
WEDExecution(m, prev) ==
    IF m.type = "log" /\ prev # None
    THEN [prev EXCEPT !.execution_log = Append(@, LogLine)]
    ELSE prev

WEDRefetches(m) == m.type \in {"workflow_completed", "workflow_failed"}

\* What GET /api/workflows/execution/{id} can answer: the record, with
\* execution_results.scanned_videos as a field when the results hold a list.
\* The view reads that list only here, from the response (98-99).
Snapshots(id) ==
    {[id |-> id, status |-> "running", execution_log |-> <<>>]}
    \cup {[id |-> id, status |-> "running", execution_log |-> <<>>, scanned_videos |-> l] :
            l \in ScannedLists \ {<<>>}}
    \cup {[id |-> id, status |-> "completed", execution_log |-> <<LogLine>>,
           scanned_videos |-> ListOf(VideoCompleted, n)] : n \in 1..MaxVideos}
    \cup {[id |-> id, status |-> "cancelled", execution_log |-> <<LogLine>>]}

\* The view after mounting on /execution/42 (or /workflows/w/executions/42).
\* WorkflowExecutionDetails has its first fetchExecutionDetails() in flight.
\* WorkflowProgress.loadData (87-106) calls api.executions.get, and api has
\* no executions member (api.js:119-176): the call throws inside the try, so
\* no request is made, execution stays null and loading becomes false.
EInit ==
    /\ eView \in Views
    /\ execution = None
    /\ videos = <<>>
    /\ loading = (eView = "WorkflowExecutionDetails")
    /\ fetches = IF eView = "WorkflowExecutionDetails" THEN <<ViewedExecution>> ELSE <<>>
    /\ sPos = <<>>
    /\ lSteps = 0
    /\ stopModalOpen = FALSE
    /\ stopCall = <<>>
    /\ terminals = 0

\* Stream event m arrives while the view is mounted.  WorkflowExecutionDetails
\* runs the onmessage of its own socket on m.  WorkflowProgress has no socket
\* of its own: the frame goes to the hook, and the effect runs on the hook's
\* lastMessage; loadData, were it called, makes no request (see EInit).
Handle(m) ==
    /\ IF eView = "WorkflowProgress"
       THEN /\ videos' = WPEffect(LastMessage, ViewedExecution, videos)
            /\ loading' = IF LastMessage \notin {Undefined, None}
                              /\ WPRefetches(LastMessage, ViewedExecution)
                           THEN FALSE ELSE loading
            /\ UNCHANGED <<execution, fetches>>
       ELSE /\ m.type = "log" /\ execution # None => Len(execution.execution_log) < MaxLog
            /\ WEDRefetches(m) => Len(fetches) < MaxInFlight
            /\ videos' = WEDVideos(m, videos)
            /\ execution' = WEDExecution(m, execution)
            /\ fetches' = IF WEDRefetches(m) THEN Append(fetches, routeId)
                          ELSE fetches
            /\ UNCHANGED loading
    /\ UNCHANGED <<eView, stopModalOpen, stopCall, eOthers>>

TerminalTypes == {"workflow_completed", "workflow_failed"}

\* m ends the execution on screen
IsTerminalOfViewed(m) == m.type \in TerminalTypes /\ m.execution_id = ViewedExecution

\* One stream event reaches the view
Message(m) ==
    /\ m \in Messages
    /\ Handle(m)
    /\ IsTerminalOfViewed(m) => terminals < MaxTerminals
    /\ terminals' = IF IsTerminalOfViewed(m) THEN terminals + 1 ELSE terminals
    /\ UNCHANGED <<sPos, lSteps>>

\* setExecution(data): the fields of the response the view reads
RecordOf(data) ==
    [id |-> data.id, status |-> data.status, execution_log |-> data.execution_log]

\* fetchExecutionDetails (92-106): request k is answered with a record
FetchOkStep(k, data) ==
    /\ k \in 1..Len(fetches)
    /\ data \in Snapshots(fetches[k])
    /\ execution' = RecordOf(data)
    /\ IF "scanned_videos" \in DOMAIN data
       THEN videos' = data.scanned_videos
       ELSE UNCHANGED videos
    /\ loading' = FALSE
    /\ fetches' = RemoveAt(fetches, k)
    /\ UNCHANGED <<eView, stopModalOpen, stopCall, sPos, lSteps, terminals>>

FetchOk(k, data) == FetchOkStep(k, data) /\ UNCHANGED eOthers

\* fetchExecutionDetails: request k fails (catch: console.error only)
FetchFail(k) ==
    /\ k \in 1..Len(fetches)
    /\ loading' = FALSE
    /\ fetches' = RemoveAt(fetches, k)
    /\ UNCHANGED <<eView, stopModalOpen, stopCall, execution, videos, sPos, lSteps, terminals, eOthers>>

\* WorkflowExecutionDetails: setStopModalOpen(true), from the Stop button,
\* which is rendered for a running execution (part_004:177-185)
StopClick ==
    /\ eView = "WorkflowExecutionDetails"
    /\ execution # None /\ execution.status = "running"
    /\ ~stopModalOpen
    /\ stopModalOpen' = TRUE
    /\ UNCHANGED <<eView, execution, videos, loading, fetches, stopCall, sPos, lSteps,
                   terminals, eOthers>>

\* the stop modal's onClose (459): its buttons are disabled while its
\* request runs (463)
StopClose ==
    /\ stopModalOpen /\ stopCall = <<>>
    /\ stopModalOpen' = FALSE
    /\ UNCHANGED <<eView, execution, videos, loading, fetches, stopCall, sPos, lSteps,
                   terminals, eOthers>>

\* the stop modal's onConfirm up to its await (444-448): the modal is
\* rendered with the execution, whatever its status has become, and the
\* request is sent for execution.id as the page holds it now
StopConfirm ==
    /\ eView = "WorkflowExecutionDetails"
    /\ stopModalOpen /\ stopCall = <<>>
    /\ execution # None
    /\ stopCall' = <<routeId, execution.id>>
    /\ UNCHANGED <<eView, stopModalOpen, execution, videos, loading, fetches, sPos,
                   lSteps, terminals, eOthers>>

\* the cancel request is answered (449-457): on success the handler calls
\* fetchExecutionDetails() without awaiting it, the one of the render in
\* which the modal was confirmed; its finally closes the modal
StopAnswer(ok) ==
    /\ stopCall # <<>>
    /\ ok => Len(fetches) <= MaxInFlight
    /\ stopCall' = <<>>
    /\ stopModalOpen' = FALSE
    /\ fetches' = IF ok THEN Append(fetches, stopCall[1]) ELSE fetches
    /\ UNCHANGED <<eView, execution, videos, loading, sPos, lSteps, terminals, eOthers>>

ENext ==
    \/ \E m \in Messages : Message(m)
    \/ \E k \in 1..Len(fetches) : \E data \in Snapshots(ViewedExecution) : FetchOk(k, data)
    \/ \E k \in 1..Len(fetches) : FetchFail(k)

(* Navigation: the route of the mounted WorkflowExecutionDetails changes.   *)
(* The component stays mounted and keeps its state; the effect on           *)
(* executionId (22-90) runs again and calls fetchExecutionDetails() for the  *)
(* new id.  Requests already in flight are not cancelled.  The stop modal   *)
(* starts snapshot requests of its own.                                      *)

\* the route after mount, no response received yet
NInit ==
    /\ routeId = ViewedExecution
    /\ answers = <<>>
    /\ overtaken = FALSE

\* the route changes to /execution/{id}: the effect re-runs (90) and issues
\* the snapshot request of the new id (23)
Navigate(id) ==
    /\ eView = "WorkflowExecutionDetails"
    /\ id # routeId
    /\ Len(fetches) <= MaxInFlight
    /\ routeId' = id
    /\ fetches' = Append(fetches, id)
    /\ overtaken' = (\E k \in 1..Len(fetches) : fetches[k] = routeId)
    /\ UNCHANGED <<eView, stopModalOpen, stopCall, execution, videos, loading, sPos, lSteps, terminals, answers, nOthers>>

\* request k is answered with a record; the response is remembered
NavFetchOk(k, data) ==
    /\ FetchOkStep(k, data)
    /\ answers' = (fetches[k] :> data) @@ answers
    /\ UNCHANGED <<routeId, overtaken, nOthers>>

NNext ==
    \/ \E id \in ExecutionIds : Navigate(id)
    \/ \E k \in 1..Len(fetches) : \E data \in Snapshots(fetches[k]) : NavFetchOk(k, data)
    \/ \E k \in 1..Len(fetches) : FetchFail(k)
    \/ StopClick
    \/ StopClose
    \/ StopConfirm
    \/ \E ok \in BOOLEAN : StopAnswer(ok)

\* data.execution_results?.scanned_videos of a response, [] when it has none
ScannedOf(data) == IF "scanned_videos" \in DOMAIN data THEN data.scanned_videos ELSE <<>>

(* The stream scenario: a snapshot with N videos is on screen and the stream *)
(* delivers, for each video, video_started, video_stage_update(running) and  *)
(* video_completed in that order, the videos' events interleaved freely.     *)

StreamDone == 3

\* A video the snapshot holds from an earlier, failed attempt
VideoFailedBefore ==
    [status |-> "failed", current_stage |-> "download",
     stages |-> [s \in Stages |-> "running"], error |-> "boom"]

StreamLists ==
    UNION {[1..n -> {VideoPending, VideoFailedBefore}] : n \in 0..MaxStreamVideos}

\* the event of video i (0-based) that follows `sent` delivered ones
StreamEvent(i, sent, stage) ==
    CASE sent = 0 -> Msg("video_started", ViewedExecution, i, "", "", "", <<>>)
      [] sent = 1 -> Msg("video_stage_update", ViewedExecution, i, stage, "running", "", <<>>)
      [] OTHER -> Msg("video_completed", ViewedExecution, i, "", "", "", <<>>)

SInit ==
    /\ eView \in Views
    /\ videos \in IF eView = "WorkflowProgress" THEN {<<>>} ELSE StreamLists
    /\ execution = IF eView = "WorkflowExecutionDetails"
                   THEN [id |-> ViewedExecution, status |-> "running",
                         execution_log |-> <<>>]
                   ELSE None
    /\ loading = FALSE
    /\ fetches = <<>>
    /\ sPos = [k \in 1..Len(videos) |-> 0]
    /\ lSteps = 0
    /\ stopModalOpen = FALSE
    /\ stopCall = <<>>
    /\ terminals = 0

Deliver(k, stage) ==
    /\ k \in DOMAIN sPos
    /\ sPos[k] < StreamDone
    /\ Handle(StreamEvent(k - 1, sPos[k], stage))
    /\ sPos' = [sPos EXCEPT ![k] = @ + 1]
    /\ UNCHANGED <<lSteps, terminals>>

SNext == \E k \in DOMAIN sPos : \E stage \in Stages : Deliver(k, stage)

(* The list scenario: a video list of up to MaxListVideos entries is on      *)
(* screen and the stream delivers a few events of the viewed execution, with *)
(* indexes inside and outside the list.                                       *)

\* A video object that has only its status
VideoBare == [status |-> "pending"]

ListInputs ==
    UNION {[1..n -> {VideoPending, VideoBare, VideoCompleted, VideoFailedBefore}] :
              n \in 0..MaxListVideos}

\* events that name a video, with video_index from 0 to one past the longest list
ListEvents ==
    {Msg(t, ViewedExecution, i, "", "", "", <<>>) :
        t \in {"video_started", "video_completed"}, i \in 0..MaxListVideos}
    \cup {Msg("video_stage_update", ViewedExecution, i, sg, st, "", <<>>) :
        i \in 0..MaxListVideos, sg \in Stages, st \in StageStatuses}
    \cup {Msg("video_failed", ViewedExecution, i, "", "", "boom", <<>>) :
        i \in 0..MaxListVideos}
    \cup {Msg("log", ViewedExecution, 0, "", "", "", <<>>)}

LInit ==
    /\ eView \in Views
    /\ videos \in IF eView = "WorkflowProgress" THEN {<<>>} ELSE ListInputs
    /\ execution = IF eView = "WorkflowExecutionDetails"
                   THEN [id |-> ViewedExecution, status |-> "running",
                         execution_log |-> <<>>]
                   ELSE None
    /\ loading = FALSE
    /\ fetches = <<>>
    /\ sPos = <<>>
    /\ lSteps = 0
    /\ stopModalOpen = FALSE
    /\ stopCall = <<>>
    /\ terminals = 0

ListEvent(m) ==
    /\ m \in ListEvents
    /\ lSteps < MaxListSteps
    /\ Handle(m)
    /\ lSteps' = lSteps + 1
    /\ UNCHANGED terminals
    /\ UNCHANGED sPos

LNext == \E m \in ListEvents : ListEvent(m)


----------------------------------------------------------------------------
(* Destructive actions and their confirmation:                               *)
(*   AccountManager.handleDelete/confirmDelete/cancelDelete                  *)
(*   WorkflowBuilder.handleDelete, SavedChannels.deleteChannel               *)
(*   ActiveWorkflows.handleStop/handleDelete (src/unnamed/part_001)          *)
(*   WorkflowExecutionDetails' two ConfirmationModals (src/unnamed/part_004) *)

\* dialog: "window.confirm" asks inside the click handler; "modal" is the
\*   page's own dialog state, closed when the user answers; "ConfirmationModal"
\*   stays open, its buttons disabled, until the request settles.
\* shown: the status for which the page renders the action's button.
\* after: what the handler does once the request succeeded: "refetch" calls
\*   the page's list fetch, "filter" drops the item from the list it holds,
\*   "navigate" leaves the page.
Sites ==
    {[page |-> "AccountManager", request |-> "accounts.delete",
      dialog |-> "modal", shown |-> "any", after |-> "refetch"],
     [page |-> "WorkflowBuilder", request |-> "workflows.delete",
      dialog |-> "window.confirm", shown |-> "any", after |-> "refetch"],
     [page |-> "SavedChannels", request |-> "channels.delete",
      dialog |-> "window.confirm", shown |-> "any", after |-> "refetch"],
     [page |-> "ActiveWorkflows", request |-> "workflows.cancel",
      dialog |-> "window.confirm", shown |-> "running", after |-> "refetch"],
     [page |-> "ActiveWorkflows", request |-> "workflows.deleteExecution",
      dialog |-> "window.confirm", shown |-> "notRunning", after |-> "filter"],
     [page |-> "WorkflowExecutionDetails", request |-> "workflows.cancel",
      dialog |-> "ConfirmationModal", shown |-> "running", after |-> "refetch"],
     [page |-> "WorkflowExecutionDetails", request |-> "workflows.deleteExecution",
      dialog |-> "ConfirmationModal", shown |-> "notRunning", after |-> "navigate"]}

\* the ids of the items the backend holds
ItemIds == {1, 2}

ItemStatuses == {"running", "completed"}

ExecutionPage(site) == site.page = "WorkflowExecutionDetails"

\* the pages whose items are executions, which end on their own
ListsExecutions(site) == site.page \in {"ActiveWorkflows", "WorkflowExecutionDetails"}

\* the routes of a page: /execution/{id} for the execution page, one route
\* (0) for a page with a list
Routes(site) == IF ExecutionPage(site) THEN ItemIds ELSE {0}

\* what a response shows of the backend's items: the list pages get them all,
\* the execution page the execution of its route, if there is one
Shown(site, items, route) ==
    IF ExecutionPage(site) THEN [k \in DOMAIN items \cap {route} |-> items[k]] ELSE items

\* execution.id of the record on the execution page
ShownId(items) == CHOOSE id \in DOMAIN items : TRUE

\* exec.status === 'running' && <button>, exec.status !== 'running' && <button>
ButtonShown(site, status) ==
    CASE site.shown = "running" -> status = "running"
      [] site.shown = "notRunning" -> status # "running"
      [] OTHER -> TRUE

\* SavedChannels: if (loading) return <loader> (130): no list and no button
\* while a list request is in flight.  The other pages show the loader only
\* for an empty list.
ListHidden(site, isLoading) == site.page = "SavedChannels" /\ isLoading

\* mutant: the request goes out whatever the user answered
ConfirmedAlways(answer) == TRUE

\* if (!window.confirm(...)) return;  /  onClick={confirmDelete}, onConfirm
Confirmed(answer) == answer = "confirm"

Answers == {"confirm", "dismiss"}

Without(f, id) == [k \in DOMAIN f \ {id} |-> f[k]]

\* the backend's items after the request
Served(request, items, id) ==
    IF request = "workflows.cancel"
    THEN [items EXCEPT ![id] = "cancelled"]
    ELSE Without(items, id)

\* a list request for route, started now
ListRequest(site, items, route) == [route |-> route, data |-> Shown(site, items, route)]

\* The page with its list, or the execution of its route, loaded
DInit ==
    /\ dSite \in Sites
    /\ dBackend \in [ItemIds -> ItemStatuses]
    /\ dRoute \in Routes(dSite)
    /\ dItems = Shown(dSite, dBackend, dRoute)
    /\ dDialog = None
    /\ dRequests = <<>>
    /\ dAnswers = <<>>
    /\ dFetches = <<>>
    /\ dLoading = FALSE

\* A click on the action's button of item id on a page that asks with
\* window.confirm: the handler up to its first await.
Ask(id, answer) ==
    /\ dSite.dialog = "window.confirm"
    /\ ~ListHidden(dSite, dLoading)
    /\ id \in DOMAIN dItems /\ ButtonShown(dSite, dItems[id])
    /\ Len(dAnswers) < MaxAnswers
    /\ dAnswers' = Append(dAnswers, [id |-> id, answer |-> answer])
    /\ dRequests' = IF Confirmed(answer)
                    THEN Append(dRequests, [request |-> dSite.request, id |-> id,
                                            route |-> dRoute, settled |-> FALSE])
                    ELSE dRequests
    /\ UNCHANGED <<dSite, dItems, dBackend, dRoute, dDialog, dFetches, dLoading, dOthers>>

\* handleDelete(id) / setDeleteModalOpen(true) / setStopModalOpen(true): a
\* click on the action's button.  AccountManager keeps the id in the dialog's
\* state (deleteConfirm.accountId); the execution page keeps no id, the one
\* noted here is the id of the execution the button was clicked for.
OpenDialog(id) ==
    /\ dSite.dialog # "window.confirm"
    /\ dDialog = None
    /\ id \in DOMAIN dItems /\ ButtonShown(dSite, dItems[id])
    /\ Len(dAnswers) < MaxAnswers
    /\ dDialog' = [id |-> id, isLoading |-> FALSE]
    /\ UNCHANGED <<dSite, dItems, dBackend, dRoute, dRequests, dAnswers, dFetches,
                   dLoading, dOthers>>

\* the id the open dialog's request is sent with: deleteConfirm.accountId
\* (AccountManager 111), execution.id as the page holds it when the button is
\* clicked (part_004:431, 447)
RequestId(site, dialog, items) ==
    IF site.dialog = "ConfirmationModal" THEN ShownId(items) ELSE dialog.id

\* A click on a button of the open dialog: confirmDelete / cancelDelete,
\* onConfirm / onClose.  ConfirmationModal disables its buttons while
\* isLoading; it is rendered with the execution, whatever its status.
AnswerDialog(answer) ==
    /\ dDialog # None /\ ~dDialog.isLoading
    /\ dSite.dialog = "ConfirmationModal" => dItems # <<>>
    /\ LET id == RequestId(dSite, dDialog, dItems)
       IN  /\ dAnswers' = Append(dAnswers, [id |-> id, answer |-> answer])
           /\ IF Confirmed(answer)
              THEN /\ dRequests' = Append(dRequests,
                                          [request |-> dSite.request, id |-> id,
                                           route |-> dRoute, settled |-> FALSE])
                   /\ dDialog' = IF dSite.dialog = "ConfirmationModal"
                                 THEN [dDialog EXCEPT !.isLoading = TRUE]
                                 ELSE None
              ELSE /\ dDialog' = None
                   /\ UNCHANGED dRequests
    /\ UNCHANGED <<dSite, dItems, dBackend, dRoute, dFetches, dLoading, dOthers>>

\* The response of request k arrives and the handler runs on to its next
\* await or its end.  ok: the backend did what was asked.  After "refetch"
\* the handler starts the list request, awaited (AccountManager 115,
\* WorkflowBuilder 309) or not (part_001:53, SavedChannels 61, part_004:449),
\* the fetchExecutionDetails of the render in which the modal was confirmed,
\* and the list stays as it is until that request is answered; loadChannels
\* sets loading first (21).  After "navigate" the page is left and what its
\* requests are answered is shown nowhere.  The finally of part_004 closes
\* the modal (438-439, 454-455).  A failed request is logged, alerted or
\* shown as error.
Settle(k, ok) ==
    /\ k \in 1..Len(dRequests) /\ ~dRequests[k].settled
    /\ ok => dRequests[k].id \in DOMAIN dBackend
    /\ dRequests' = [dRequests EXCEPT ![k].settled = TRUE]
    /\ dBackend' = IF ok THEN Served(dRequests[k].request, dBackend, dRequests[k].id)
                   ELSE dBackend
    /\ dItems' = CASE ~ok \/ dSite.after = "refetch" -> dItems
                   [] dSite.after = "filter" -> Without(dItems, dRequests[k].id)
                   [] OTHER -> <<>>
    /\ dRoute' = IF ok /\ dSite.after = "navigate" THEN 0 ELSE dRoute
    /\ dFetches' = CASE ok /\ dSite.after = "refetch" ->
                          Append(dFetches, ListRequest(dSite, dBackend', dRequests[k].route))
                     [] ok /\ dSite.after = "navigate" -> <<>>
                     [] OTHER -> dFetches
    /\ dLoading' = IF ok /\ dSite.page = "SavedChannels" THEN TRUE ELSE dLoading
    /\ dDialog' = IF dSite.dialog = "ConfirmationModal" THEN None ELSE dDialog
    /\ UNCHANGED <<dSite, dAnswers, dOthers>>

\* The page fetches its list on its own: fetchAccounts after a sync or an
\* OAuth login (AccountManager 80-88, 131-141), fetchWorkflows after a save
\* (WorkflowBuilder 275), loadChannels from the refresh button (SavedChannels
\* 158), fetchExecutions from the interval or a stream event (part_001:25-46),
\* fetchExecutionDetails on a terminal event of the execution or for the
\* other execution when the route changes (part_004:22-24, 84-90).  An open
\* modal closes none of these.
Reload(route) ==
    /\ route \in Routes(dSite)
    /\ ~ListHidden(dSite, dLoading)
    /\ Len(dFetches) < MaxInFlight
    /\ dRoute' = route
    /\ dFetches' = Append(dFetches, ListRequest(dSite, dBackend, route))
    /\ dLoading' = (dSite.page = "SavedChannels")
    /\ UNCHANGED <<dSite, dItems, dBackend, dDialog, dRequests, dAnswers, dOthers>>

\* A running execution ends on the backend
ExecutionEnds(id) ==
    /\ ListsExecutions(dSite)
    /\ id \in DOMAIN dBackend /\ dBackend[id] = "running"
    /\ dBackend' = [dBackend EXCEPT ![id] = "completed"]
    /\ UNCHANGED <<dSite, dItems, dRoute, dDialog, dRequests, dAnswers, dFetches,
                   dLoading, dOthers>>

\* List request f is answered.  ok: with data, what the backend held at some
\* time between the request and its answer, and the page shows data
\* (setAccounts, setWorkflows, setChannels, setExecutions, setExecution);
\* otherwise the list stays.  The request for an execution the backend does
\* not hold fails.  loadChannels ends with setLoading(false) (30).
ListAnswer(f, ok, data) ==
    /\ f \in 1..Len(dFetches)
    /\ data \in {dFetches[f].data, Shown(dSite, dBackend, dFetches[f].route)}
    /\ ok /\ ExecutionPage(dSite) => data # <<>>
    /\ dItems' = IF ok THEN data ELSE dItems
    /\ dFetches' = RemoveAt(dFetches, f)
    /\ dLoading' = FALSE
    /\ UNCHANGED <<dSite, dBackend, dRoute, dDialog, dRequests, dAnswers, dOthers>>

DNext ==
    \/ \E id \in ItemIds : \E answer \in Answers : Ask(id, answer)
    \/ \E id \in ItemIds : OpenDialog(id)
    \/ \E answer \in Answers : AnswerDialog(answer)
    \/ \E k \in 1..Len(dRequests) : \E ok \in BOOLEAN : Settle(k, ok)
    \/ \E route \in Routes(dSite) : Reload(route)
    \/ \E id \in ItemIds : ExecutionEnds(id)
    \/ \E f \in 1..Len(dFetches) : \E ok \in BOOLEAN :
          \E data \in {dFetches[f].data, Shown(dSite, dBackend, dFetches[f].route)} :
              ListAnswer(f, ok, data)

----------------------------------------------------------------------------
(* ChannelScanner, src/src/pages/AccountManager.jsx:350-452 *)

\* a || b on strings: "" and undefined are falsy
OrElse(a, b) == IF a \notin {"", NoValue} THEN a ELSE b

\* the messages a call of the API client can reject with
Rejections == {MessageOf(ErrorOf(resp)) : resp \in {r \in Responses : ~Succeeds(r)}}

\* the fallback of err.message || '...' in handleBulkDownload (444)
BulkFailed == "Failed to start bulk download"

\* the channel URL typed into the query field
ChannelUrl == "https://youtube.com/@demo"

ScanModes == {"partial", "full"}

\* texts typed into the max-videos field, with what parseInt makes of them
\* (0 stands for NaN, which is falsy like 0)
MaxVideosTexts == {"5", "250", "abc"}
ParseInt(text) == CASE text = "5" -> 5 [] text = "250" -> 250 [] OTHER -> 0

Min(a, b) == IF a < b THEN a ELSE b
Max(a, b) == IF a > b THEN a ELSE b

\* Math.min(100, Math.max(1, parseInt(e.target.value) || 10))
ClampMaxVideos(text) ==
    Min(100, Max(1, IF ParseInt(text) = 0 THEN 10 ELSE ParseInt(text)))

\* scanMode === 'full' ? 1000 : maxVideos
VideosToScan(mode, max) == IF mode = "full" THEN 1000 ELSE max

\* videos of a scan response; the third has no id
VideoA == [id |-> "a", url |-> "url-a"]
VideoB == [id |-> "b", url |-> "url-b"]
VideoC == [url |-> "url-c"]

\* video.id || video.url
VideoKey(v) == IF "id" \in DOMAIN v THEN v.id ELSE v.url

\* What the scan request can come back with: a body with or without
\* channel_name and videos, or a rejection.
ScanResults ==
    {[kind |-> "body", channel_name |-> "Demo", videos |-> <<VideoA, VideoB>>],
     [kind |-> "body", channel_name |-> "Demo", videos |-> <<VideoA>>],
     [kind |-> "body", videos |-> <<VideoC>>],
     [kind |-> "body", channel_name |-> "Demo", videos |-> <<>>],
     [kind |-> "body", channel_name |-> "Demo"],
     [kind |-> "rejected", message |-> "HTTP 500: Internal Server Error"]}

\* !(!result || !result.videos)
ScanSucceeds(result) == result.kind = "body" /\ "videos" \in DOMAIN result

\* setChannelInfo({name, url, videoCount}) at 394-398
ChannelInfoOf(result, channelUrl) ==
    [name |-> Field(result, "channel_name", "Unknown Channel"),
     url |-> Field(result, "channel_url", channelUrl),
     videoCount |-> Len(result.videos)]

\* err.response?.data?.detail || err.message || 'Failed to scan channel...'
ScanErrorOf(result) ==
    IF result.kind = "rejected" THEN result.message
    ELSE "No videos found. Please check the URL and try again."

Keys(list) == [k \in 1..Len(list) |-> VideoKey(list[k])]

Includes(seq, x) == \E k \in 1..Len(seq) : seq[k] = x

\* prev.includes(id) ? prev.filter(x => x !== id) : [...prev, id]
Toggled(prev, id) ==
    IF Includes(prev, id) THEN SelectSeq(prev, LAMBDA x : x # id) ELSE Append(prev, id)

CInit ==
    /\ scanMode = "partial"
    /\ maxVideos = 10
    /\ isScanning = FALSE
    /\ scanVideos = <<>>
    /\ selectedVideos = <<>>
    /\ channelInfo = None
    /\ scanError = None
    /\ scanCall = None
    /\ scansMade = 0
    /\ bulkCalls = <<>>

\* the mode radio buttons, disabled while scanning
SetScanMode(mode) ==
    /\ ~isScanning
    /\ scanMode' = mode
    /\ UNCHANGED <<maxVideos, isScanning, scanVideos, selectedVideos, channelInfo,
                   scanError, scanCall, scansMade, bulkCalls, cOthers>>

\* the max-videos field, rendered in partial mode and disabled while scanning
SetMaxVideos(text) ==
    /\ ~isScanning /\ scanMode = "partial"
    /\ maxVideos' = ClampMaxVideos(text)
    /\ UNCHANGED <<scanMode, isScanning, scanVideos, selectedVideos, channelInfo,
                   scanError, scanCall, scansMade, bulkCalls, cOthers>>

\* handleScan up to the await (377-388); the button is disabled while scanning
HandleScan ==
    /\ ~isScanning
    /\ scansMade < MaxScans
    /\ isScanning' = TRUE
    /\ scanError' = None
    /\ scanVideos' = <<>>
    /\ channelInfo' = None
    /\ scanCall' = [url |-> ChannelUrl, max_videos |-> VideosToScan(scanMode, maxVideos),
                    settled |-> FALSE]
    /\ scansMade' = scansMade + 1
    /\ UNCHANGED <<scanMode, maxVideos, selectedVideos, bulkCalls, cOthers>>

\* handleScan after the await (390-408)
ScanSettles(result) ==
    /\ isScanning /\ scanCall # None /\ ~scanCall.settled
    /\ result \in ScanResults
    /\ IF ScanSucceeds(result)
       THEN /\ channelInfo' = ChannelInfoOf(result, scanCall.url)
            /\ scanVideos' = result.videos
            /\ UNCHANGED scanError
       ELSE /\ scanError' = ScanErrorOf(result)
            /\ UNCHANGED <<channelInfo, scanVideos>>
    /\ isScanning' = FALSE
    /\ scanCall' = [scanCall EXCEPT !.settled = TRUE]
    /\ UNCHANGED <<scanMode, maxVideos, selectedVideos, scansMade, bulkCalls, cOthers>>

\* toggleVideo(videoId): a click on a row of the list, which is rendered
\* when no scan is running
ToggleVideo(k) ==
    /\ ~isScanning
    /\ k \in 1..Len(scanVideos)
    /\ selectedVideos' = Toggled(selectedVideos, VideoKey(scanVideos[k]))
    /\ UNCHANGED <<scanMode, maxVideos, isScanning, scanVideos, channelInfo, scanError,
                   scanCall, scansMade, bulkCalls, cOthers>>

\* toggleSelectAll: the action bar is rendered while videos.length > 0
ToggleSelectAll ==
    /\ Len(scanVideos) > 0
    /\ selectedVideos' = IF Len(selectedVideos) = Len(scanVideos)
                         THEN <<>> ELSE Keys(scanVideos)
    /\ UNCHANGED <<scanMode, maxVideos, isScanning, scanVideos, channelInfo, scanError,
                   scanCall, scansMade, bulkCalls, cOthers>>

\* handleDeleteSelected: enabled while something is selected
HandleDeleteSelected ==
    /\ Len(scanVideos) > 0 /\ Len(selectedVideos) > 0
    /\ scanVideos' = SelectSeq(scanVideos,
                               LAMBDA v : ~Includes(selectedVideos, VideoKey(v)))
    /\ selectedVideos' = <<>>
    /\ UNCHANGED <<scanMode, maxVideos, isScanning, channelInfo, scanError, scanCall,
                   scansMade, bulkCalls, cOthers>>

\* videos.filter(v => selectedVideos.includes(v.id || v.url)).map(v => v.url)
SelectedUrls(list, selected) ==
    LET chosen == SelectSeq(list, LAMBDA v : Includes(selected, VideoKey(v)))
    IN  [k \in 1..Len(chosen) |-> chosen[k].url]

\* handleBulkDownload up to its await (427-438): the button is in the action
\* bar and disabled while nothing is selected (657), not while a call runs
HandleBulkDownload ==
    /\ Len(scanVideos) > 0 /\ Len(selectedVideos) > 0
    /\ Len(bulkCalls) < MaxInFlight
    /\ bulkCalls' = Append(bulkCalls, SelectedUrls(scanVideos, selectedVideos))
    /\ UNCHANGED <<scanMode, maxVideos, isScanning, scanVideos, selectedVideos,
                   channelInfo, scanError, scanCall, scansMade, cOthers>>

\* handleBulkDownload after the await: setSelectedVideos([]) (441), or the
\* error of the catch block (442-445).  call: "ok", or the message the call
\* rejects with.
BulkSettles(k, call) ==
    /\ k \in 1..Len(bulkCalls)
    /\ call \in {"ok"} \cup Rejections
    /\ bulkCalls' = RemoveAt(bulkCalls, k)
    /\ selectedVideos' = IF call = "ok" THEN <<>> ELSE selectedVideos
    /\ scanError' = IF call = "ok" THEN scanError ELSE OrElse(call, BulkFailed)
    /\ UNCHANGED <<scanMode, maxVideos, isScanning, scanVideos, channelInfo, scanCall,
                   scansMade, cOthers>>

CNext ==
    \/ \E mode \in ScanModes : SetScanMode(mode)
    \/ \E text \in MaxVideosTexts : SetMaxVideos(text)
    \/ HandleScan
    \/ \E result \in ScanResults : ScanSettles(result)
    \/ \E k \in 1..Len(scanVideos) : ToggleVideo(k)
    \/ ToggleSelectAll
    \/ HandleDeleteSelected
    \/ HandleBulkDownload
    \/ \E k \in 1..Len(bulkCalls) : \E call \in {"ok"} \cup Rejections : BulkSettles(k, call)

----------------------------------------------------------------------------
(* SingleDownloader, src/src/pages/SingleDownloader.jsx, on top of the hook *)

\* const progressData = downloadId ? getProgress(downloadId) : null
ProgressData(id) == IF id # "" THEN GetProgress(id) ELSE None

\* progressData is another object once the id is: two entries of the map are
\* two objects, and null is null
ProgressDataChanges(oldId, newId) ==
    oldId # newId /\ ~(ProgressData(oldId) = None /\ ProgressData(newId) = None)

\* the fallback of progressData.message || 'Download failed' (119)
DownloadFailed == "Download failed"
\* the fallbacks of err.message || '...' (82, 107)
InfoFailed == "Failed to fetch video info"
StartFailed == "Failed to start download"
\* the text handlePlay sets (142)
PlayFailed == "Failed to play video. It might have been moved or deleted."

\* what can be in the URL field
Urls == {"", "https://v/1"}

\* mutant: the effect only looks for 'failed'
EndsDownloadFailedOnly(status) == status = "failed"

\* the statuses on which the progress effect clears isDownloading (115-122)
EndsDownload(status) == status \in {"completed", "failed"}

\* The page once mounted, the hook's socket open
PInit ==
    /\ isDownloading = FALSE
    /\ downloadId = ""
    /\ dlError = ""
    /\ dlCall = "none"
    /\ dlDirty = FALSE
    /\ dlTarget = ""
    /\ dlTerminal = "none"
    /\ dlStarts = 0
    /\ url = ""
    /\ videoInfo = None
    /\ isFetchingInfo = FALSE
    /\ infoCall = "none"
    /\ playCalls = 0
    /\ playingVideo = ""

\* the hook of a mounted page after onopen
WOpen ==
    /\ wPhase = "mounted"
    /\ wSockets = <<"open">>
    /\ wsRef = 1
    /\ wTimers = <<>>
    /\ reconnectTimeoutRef = 0
    /\ isConnected = TRUE
    /\ progress = <<>>
    /\ wConstructFails = 0
    /\ wLatest = <<>>
    /\ wDrop = "none"

\* onChange of the URL field (219), disabled while a download or an info
\* request runs (220)
SetUrl(text) ==
    /\ ~isDownloading /\ ~isFetchingInfo
    /\ url' = text
    /\ UNCHANGED <<isDownloading, downloadId, dlError, dlCall, dlDirty, dlTarget,
                   dlTerminal, dlStarts, videoInfo, isFetchingInfo, infoCall, playCalls,
                   playingVideo, wvars, pOthers>>

\* handleFetchInfo up to its await (63-77), from the Fetch Info button (225,
\* disabled 226) or Enter in the URL field (221, disabled 220)
FetchInfoClick ==
    /\ ~isDownloading /\ ~isFetchingInfo
    /\ IF url = ""
       THEN UNCHANGED <<dlError, isFetchingInfo, videoInfo, downloadId, dlDirty, infoCall>>
       ELSE /\ dlError' = ""
            /\ isFetchingInfo' = TRUE
            /\ videoInfo' = None
            /\ downloadId' = ""
            /\ dlDirty' = (dlDirty \/ ProgressDataChanges(downloadId, ""))
            /\ infoCall' = "pending"
    /\ UNCHANGED <<isDownloading, dlCall, dlTarget, dlTerminal, dlStarts, url, playCalls,
                   playingVideo, wvars, pOthers>>

\* handleFetchInfo after the await: setVideoInfo(info) (79), finally (85)
InfoOk ==
    /\ infoCall = "pending"
    /\ videoInfo' = [title |-> "video"]
    /\ isFetchingInfo' = FALSE
    /\ infoCall' = "none"
    /\ UNCHANGED <<isDownloading, downloadId, dlError, dlCall, dlDirty, dlTarget,
                   dlTerminal, dlStarts, url, playCalls, playingVideo, wvars, pOthers>>

\* handleFetchInfo: the request rejected with message (80-85)
InfoFail(message) ==
    /\ infoCall = "pending"
    /\ message \in Rejections
    /\ dlError' = OrElse(message, InfoFailed)
    /\ isFetchingInfo' = FALSE
    /\ infoCall' = "none"
    /\ UNCHANGED <<isDownloading, downloadId, dlCall, dlDirty, dlTarget, dlTerminal,
                   dlStarts, url, videoInfo, playCalls, playingVideo, wvars, pOthers>>

\* the ids the backend gives the downloads it is asked for, in the order of
\* the requests
DownloadOrder == <<"d1", "d2">>
\* the id of the download asked for after n others
NewDownloadId(n) == DownloadOrder[n + 1]

\* handleDownload up to its await (89-101).  The button is rendered with the
\* fetched info (246) and disabled while isDownloading (299).  The download
\* the request asks for gets an id no frame has carried yet.  One start
\* request is in flight at a time.
DownloadClick ==
    /\ videoInfo # None
    /\ ~isDownloading
    /\ dlCall = "none"
    /\ dlStarts < MaxDownloads /\ dlStarts < Len(DownloadOrder)
    /\ NewDownloadId(dlStarts) \notin DOMAIN progress
    /\ IF url = ""
       THEN UNCHANGED <<dlError, isDownloading, dlCall, dlTarget, dlTerminal, dlStarts>>
       ELSE /\ dlError' = ""
            /\ isDownloading' = TRUE
            /\ dlCall' = NewDownloadId(dlStarts)
            /\ dlTarget' = NewDownloadId(dlStarts)
            /\ dlTerminal' = "none"
            /\ dlStarts' = dlStarts + 1
    /\ UNCHANGED <<downloadId, dlDirty, url, videoInfo, isFetchingInfo, infoCall,
                   playCalls, playingVideo, wvars, pOthers>>

\* handleDownload after the await: setDownloadId(response.id) (103)
StartOk ==
    /\ dlCall # "none"
    /\ downloadId' = dlCall
    /\ dlDirty' = (dlDirty \/ ProgressDataChanges(downloadId, dlCall))
    /\ dlCall' = "none"
    /\ UNCHANGED <<isDownloading, dlError, dlTarget, dlTerminal, dlStarts, url, videoInfo,
                   isFetchingInfo, infoCall, playCalls, playingVideo, wvars, pOthers>>

\* handleDownload: the request rejected with message (106-109)
StartFail(message) ==
    /\ dlCall # "none"
    /\ message \in Rejections
    /\ dlError' = OrElse(message, StartFailed)
    /\ isDownloading' = FALSE
    /\ dlCall' = "none"
    /\ UNCHANGED <<downloadId, dlDirty, dlTarget, dlTerminal, dlStarts, url, videoInfo,
                   isFetchingInfo, infoCall, playCalls, playingVideo, wvars, pOthers>>

\* handlePlay up to its await (136-138), from the play button of a completed
\* entry of the recent downloads (398)
PlayClick ==
    /\ playCalls < MaxInFlight
    /\ playCalls' = playCalls + 1
    /\ UNCHANGED <<isDownloading, downloadId, dlError, dlCall, dlDirty, dlTarget,
                   dlTerminal, dlStarts, url, videoInfo, isFetchingInfo, infoCall,
                   playingVideo, wvars, pOthers>>

\* handlePlay after the await: setPlayingVideo(response.url) (139), or the
\* error of the catch block (140-143)
PlayAnswer(ok) ==
    /\ playCalls > 0
    /\ playCalls' = playCalls - 1
    /\ playingVideo' = IF ok THEN "/files/video.mp4" ELSE playingVideo
    /\ dlError' = IF ok THEN dlError ELSE PlayFailed
    /\ UNCHANGED <<isDownloading, downloadId, dlCall, dlDirty, dlTarget, dlTerminal,
                   dlStarts, url, videoInfo, isFetchingInfo, infoCall, wvars, pOthers>>

\* the close button and the backdrop of the player (161, 179)
ClosePlayer ==
    /\ playingVideo # ""
    /\ playingVideo' = ""
    /\ UNCHANGED <<isDownloading, downloadId, dlError, dlCall, dlDirty, dlTarget,
                   dlTerminal, dlStarts, url, videoInfo, isFetchingInfo, infoCall,
                   playCalls, wvars, pOthers>>

\* A frame arrives on the hook's socket while the page is mounted: of any
\* download, with any status, whatever came before it.
PageMessage(s, frame) ==
    /\ OnMessageStep(s, frame)
    /\ dlDirty' = (dlDirty \/ (frame.kind # "malformed" /\ downloadId # ""
                                /\ KeyOf(frame) = downloadId))
    /\ dlTerminal' = IF frame.kind = "progress" /\ frame.download_id = dlTarget
                        /\ frame.status \in {"completed", "failed"}
                     THEN frame.status ELSE dlTerminal
    /\ UNCHANGED <<isDownloading, downloadId, dlError, dlCall, dlTarget, dlStarts, url,
                   videoInfo, isFetchingInfo, infoCall, playCalls, playingVideo, pOthers>>

\* The progress effect (113-124), run after a render in which progressData
\* is another object than in the render before
ProgressEffect ==
    /\ dlDirty
    /\ dlDirty' = FALSE
    /\ LET progressData == ProgressData(downloadId)
       IN  IF progressData # None /\ EndsDownload(progressData.status)
           THEN /\ isDownloading' = FALSE
                /\ dlError' = IF progressData.status = "failed"
                              THEN OrElse(progressData.message, DownloadFailed)
                              ELSE dlError
           ELSE UNCHANGED <<isDownloading, dlError>>
    /\ UNCHANGED <<downloadId, dlCall, dlTarget, dlTerminal, dlStarts, url, videoInfo,
                   isFetchingInfo, infoCall, playCalls, playingVideo, wvars, pOthers>>

ProgressFrames == {f \in Frames : f.kind = "progress"}

PNextDl ==
    \/ \E text \in Urls : SetUrl(text)
    \/ FetchInfoClick
    \/ InfoOk
    \/ \E message \in Rejections : InfoFail(message)
    \/ DownloadClick
    \/ StartOk
    \/ \E message \in Rejections : StartFail(message)
    \/ PlayClick
    \/ \E ok \in BOOLEAN : PlayAnswer(ok)
    \/ ClosePlayer
    \/ \E s \in 1..Len(wSockets) : \E frame \in ProgressFrames : PageMessage(s, frame)
    \/ ProgressEffect

----------------------------------------------------------------------------
(* Specifications: one component runs, the others rest in their initial state *)

\* the resting state of the components a specification does not run
GRest == GInit /\ workflows = <<>>
ERest == EInit /\ eView = "WorkflowExecutionDetails"
DRest == DInit /\ dSite.page = "AccountManager" /\ \A id \in DOMAIN dItems : dItems[id] = "completed"

InitHttp == HInit /\ WInit /\ GRest /\ ERest /\ DRest /\ CInit /\ PInit /\ NInit

SpecHttp == InitHttp /\ [][HNext]_vars

\* Time passes and timers fire; whether a fetch settles is up to the network.
SpecTimeout == InitHttp /\ [][TNext]_vars /\ WF_vars(Tick) /\ WF_vars(BackoffElapsed)

InitWs == HInit /\ WInit /\ GRest /\ ERest /\ DRest /\ CInit /\ PInit /\ NInit

SpecWs == InitWs /\ [][WNext]_vars

Init == HInit /\ WInit /\ GInit /\ ERest /\ DRest /\ CInit /\ PInit /\ NInit

Spec == Init /\ [][GNext]_vars

InitExec == HInit /\ WInit /\ GRest /\ EInit /\ DRest /\ CInit /\ PInit /\ NInit

SpecExec == InitExec /\ [][ENext]_vars

InitStream == HInit /\ WInit /\ GRest /\ SInit /\ DRest /\ CInit /\ PInit /\ NInit

SpecStream == InitStream /\ [][SNext]_vars

InitConfirm == HInit /\ WInit /\ GRest /\ ERest /\ DInit /\ CInit /\ PInit /\ NInit

SpecConfirm == InitConfirm /\ [][DNext]_vars

InitList == HInit /\ WInit /\ GRest /\ LInit /\ DRest /\ CInit /\ PInit /\ NInit

SpecList == InitList /\ [][LNext]_vars

InitSession == HInit /\ WInit /\ BInit /\ ERest /\ DRest /\ CInit /\ PInit /\ NInit

SpecSession == InitSession /\ [][BNext]_vars

SpecPanel == InitSession /\ [][PNext]_vars

InitBinding == HInit /\ WInit /\ RInit /\ ERest /\ DRest /\ CInit /\ PInit /\ NInit

SpecBinding == InitBinding /\ [][RNext]_vars

InitDownloader == HInit /\ WOpen /\ GRest /\ ERest /\ DRest /\ CInit /\ PInit /\ NInit

\* React runs the effects of a render once it has committed it.  Whether the
\* start request is ever answered is up to the network.
SpecDownloader == InitDownloader /\ [][PNextDl]_vars /\ WF_vars(ProgressEffect)

InitNav == HInit /\ WInit /\ GRest /\ ERest /\ DRest /\ CInit /\ PInit /\ NInit

SpecNav == InitNav /\ [][NNext]_vars

InitScanner == HInit /\ WInit /\ GRest /\ ERest /\ DRest /\ CInit /\ PInit /\ NInit

SpecScanner == InitScanner /\ [][CNext]_vars

----------------------------------------------------------------------------
(* Claims about APIClient.request *)

IsRetriableFailure(resp) == IsServerError(resp) \/ IsNetworkFailure(resp)

AllRetriableBefore(n) == \A j \in 1..n : IsRetriableFailure(hOutcomes[j])

\* C4 (as claimed): for every value of retries, an attempt that receives a 4xx
\* response ends the request at once: it is the last fetch of the call, the
\* call has thrown the error carrying the server's detail, and no backoff
\* delay follows it.
C4_ClientErrorFailsImmediately ==
    \A j \in 1..Len(hOutcomes) :
        IsClientError(hOutcomes[j]) =>
            /\ j = Len(hOutcomes)
            /\ hPc \in {"reading", "thrown"}
            /\ hPc = "thrown" => hResult = ClientErrorOf(hOutcomes[j])
            /\ Len(hDelays) = j - 1

\* C5: with retries = r, when the first k <= r attempts fail with a 5xx
\* response or a network error and attempt k+1 succeeds, the call returns
\* that attempt's payload after exactly k+1 fetches and exactly k backoff
\* delays, the j-th being 1000 * 2^(j-1) ms.
C5_RetryThenSuccess ==
    (/\ hPc = "returned"
     /\ Len(hOutcomes) >= 1
     /\ AllRetriableBefore(Len(hOutcomes) - 1)
     /\ Succeeds(Last(hOutcomes)))
    => LET k == Len(hOutcomes) - 1
       IN  /\ k <= hMaxRetries
           /\ hResult = PayloadOf(Last(hOutcomes))
           /\ Len(hDelays) = k
           /\ \A j \in 1..k : hDelays[j] = 1000 * Pow(2, j - 1)

\* retries = 2, two 503 responses, then a JSON success: delays 1000 ms, 2000 ms
C5_Witness ==
    /\ hPc = "returned"
    /\ hMaxRetries = 2
    /\ Len(hOutcomes) = 3
    /\ hOutcomes[1].status = 503
    /\ hOutcomes[2].status = 503
    /\ hResult = [value |-> "json", body |-> [data |-> "payload"]]
    /\ hDelays = <<1000, 2000>>

\* C6: with retries = r and every attempt failing with a 5xx response or a
\* network error, the call never makes more than r+1 fetches or r backoff
\* delays, and it ends by throwing the error of the last attempt after exactly
\* r+1 fetches and r delays.
C6_RetriesExhausted ==
    /\ Len(hOutcomes) <= hMaxRetries + 1
    /\ Len(hDelays) <= hMaxRetries
    /\ (AllRetriableBefore(Len(hOutcomes)) /\ hPc \in {"fetching", "backoff"})
          => Len(hOutcomes) <= hMaxRetries
    /\ (AllRetriableBefore(Len(hOutcomes)) /\ hPc = "thrown")
          => /\ Len(hOutcomes) = hMaxRetries + 1
             /\ Len(hDelays) = hMaxRetries
             /\ hResult = ErrorOf(Last(hOutcomes))
    /\ (AllRetriableBefore(Len(hOutcomes)) /\ Len(hOutcomes) = hMaxRetries + 1)
          => hPc = "thrown"

\* retries = 2: a 503, a network failure, a 500; the 500's error is thrown
C6_Witness ==
    /\ hPc = "thrown"
    /\ hMaxRetries = 2
    /\ Len(hOutcomes) = 3
    /\ hOutcomes[1].status = 503
    /\ hOutcomes[2].status = 0
    /\ hOutcomes[3].status = 500
    /\ hResult = [error |-> "http", status |-> 500, text |-> "Internal Server Error"]
    /\ Len(hDelays) = 2

\* the fetch in progress has been pending for the timeout or longer
TimeoutElapsed == hPc = "fetching" /\ ElapsedMs(hElapsed) >= DefaultTimeout

\* C26 (as claimed): a fetch that is still pending when the timeout has
\* elapsed does not stay pending: the attempt ends (with a timeout error that
\* is retried like another failure).
C26_PendingFetchTimesOut ==
    TimeoutElapsed ~> (hPc # "fetching")

----------------------------------------------------------------------------
(* Claims about useWebSocket *)

SocketsIn(states) == {s \in 1..Len(wSockets) : wSockets[s] \in states}
TimersIn(states) == {t \in 1..Len(wTimers) : wTimers[t].state \in states}

\* C7: while the consumer is mounted, every socket close (and every failed
\* construction) has scheduled exactly one reconnect timer, every timer has
\* the fixed 3000 ms delay however many attempts went before, none is
\* cancelled, and every timer that fired made exactly one connect attempt.
C7_OneReconnectPerClose ==
    wPhase = "mounted" =>
        /\ Len(wTimers) = Cardinality(SocketsIn({"closed"})) + wConstructFails
        /\ \A t \in 1..Len(wTimers) : wTimers[t].delay = 3000
        /\ TimersIn({"cleared"}) = {}
        /\ Len(wSockets) + wConstructFails = 1 + Cardinality(TimersIn({"fired"}))
        /\ Cardinality(TimersIn({"pending"})) <= 1

\* two sockets closed in turn, each followed by its reconnect; the third is open
C7_Witness ==
    /\ wPhase = "mounted"
    /\ wSockets = <<"closed", "closed", "open">>
    /\ Len(wTimers) = 2
    /\ TimersIn({"fired"}) = {1, 2}
    /\ wConstructFails = 0

\* C8 (as claimed): once the consumer is unmounted, no reconnect timer is
\* scheduled, no socket is constructed and no hook state is updated.
C8_QuietAfterTeardown ==
    [][wPhase = "unmounted" =>
          /\ Len(wTimers') = Len(wTimers)
          /\ Len(wSockets') = Len(wSockets)
          /\ isConnected' = isConnected
          /\ progress' = progress]_vars

\* C28: a hook instance has at most one socket that is connecting or open,
\* at most one pending reconnect timer, and never a live socket and a pending
\* timer at once.
C28_SingleConnection ==
    LET live == SocketsIn({"connecting", "open"})
        pending == TimersIn({"pending"})
    IN  /\ Cardinality(live) <= 1
        /\ Cardinality(pending) <= 1
        /\ live = {} \/ pending = {}

\* the hook has reconnected: two sockets are gone and the third is live
C28_Witness ==
    /\ Len(wSockets) = 3
    /\ Cardinality(SocketsIn({"connecting", "open"})) = 1
    /\ Cardinality(TimersIn({"fired"})) >= 2

Malformed == [kind |-> "malformed"]

\* C11: a frame that is not valid JSON changes neither the progress map nor
\* isConnected, leaves the socket open and schedules no reconnect; a progress
\* frame that comes after it is upserted as usual.
C11_MalformedFrameDropped ==
    [][\A s \in 1..Len(wSockets) : \A f \in Frames :
          SocketMessage(s, f) =>
              /\ f = Malformed =>
                    /\ progress' = progress
                    /\ isConnected' = isConnected
                    /\ wSockets' = wSockets /\ wSockets'[s] = "open"
                    /\ wTimers' = wTimers
              /\ f.kind = "progress" /\ wDrop # "none" =>
                    /\ f.download_id \in DOMAIN progress'
                    /\ progress'[f.download_id] = EntryOf(f)]_vars

C11_Witness ==
    /\ wDrop = "processed"
    /\ \E s \in 1..Len(wSockets) : wSockets[s] = "open"
    /\ DownloadIds \subseteq DOMAIN progress

\* C12: getProgress(k) is the entry of the last progress frame received for k
\* since the last clearProgress(k), and null when there is none, whatever
\* closes and reconnects happened in between.
C12_GetProgressIsLatest ==
    \A k \in DownloadIds :
        GetProgress(k) = IF k \in DOMAIN wLatest THEN EntryOf(wLatest[k]) ELSE None

\* an entry that outlived its socket, next to a key that was cleared
C12_Witness ==
    /\ Cardinality(SocketsIn({"closed"})) >= 1
    /\ Cardinality(TimersIn({"fired"})) >= 1
    /\ GetProgress("d1") = EntryOf([kind |-> "progress", download_id |-> "d1",
                                    progress |-> 100, status |-> "completed",
                                    message |-> NoValue])
    /\ GetProgress("d2") = None
    /\ wDrop = "processed"

\* C13 (as claimed): a decoded frame without a download_id field leaves the
\* progress map as it was.
C13_EventFrameIgnored ==
    [][\A s \in 1..Len(wSockets) : \A f \in Frames :
          (f.kind = "event" /\ SocketMessage(s, f)) => progress' = progress]_vars

\* C14 (as claimed): after a frame that decodes, the hook's lastMessage is
\* that frame.
C14_LastMessageIsLastFrame ==
    [][\A s \in 1..Len(wSockets) : \A f \in Frames :
          (f # Malformed /\ SocketMessage(s, f)) => LastMessage' = f]_vars

----------------------------------------------------------------------------
(* Claims about the WorkflowBuilder graph *)

\* C1: after any sequence of editor operations every edge's source and target
\* are ids of nodes on the canvas, and right after deleteNode(id) neither the
\* node id nor any edge with source or target id is left.
C1_NoDanglingEdges ==
    /\ \A e \in Elems(edges) : e.source \in Ids(nodes) /\ e.target \in Ids(nodes)
    /\ gLast.op = "deleteNode" =>
          /\ gLast.id \notin Ids(nodes)
          /\ \A e \in Elems(edges) : e.source # gLast.id /\ e.target # gLast.id

\* a node with two incident edges was just deleted; nodes and an edge remain
C1_Witness ==
    /\ gLast.op = "deleteNode"
    /\ gLast.removed = 2
    /\ Len(nodes) >= 2
    /\ Len(edges) >= 1

\* C2 (as claimed): in every editor state, after the render that follows a
\* node or edge mutation, a node's isStart flag is true exactly when no edge
\* has the node as its target.
C2_IsStartIffNoIncoming ==
    \A n \in Elems(nodes) :
        IsStartOf(n) <=> ~\E e \in Elems(edges) : e.target = n.id

\* a node without its runtime flag
SansActive(node) ==
    [node EXCEPT !.data = [f \in DOMAIN node.data \ {"isActive"} |-> node.data[f]]]

\* C21: node_started sets isActive on the node with the event's id and on no
\* other, node_completed clears it on that node, a workflow_completed or
\* workflow_failed event leaves no node active; the events keep every node's
\* id, type, config and every edge.
C21_OverlayOnly ==
    [][gLast'.op \in NodeEventTypes =>      \* the step is NodeEvent(type, id)
          LET type == gLast'.op
              id == gLast'.id
          IN  /\ Len(nodes') = Len(nodes)
              /\ edges' = edges
              /\ \A i \in 1..Len(nodes) :
                    /\ SansActive(nodes'[i]) = SansActive(nodes[i])
                    /\ IsActiveOf(nodes'[i]) =
                          CASE type = "node_started" ->
                                  (nodes[i].id = id \/ IsActiveOf(nodes[i]))
                            [] type = "node_completed" ->
                                  (nodes[i].id # id /\ IsActiveOf(nodes[i]))
                            [] OTHER -> FALSE]_vars

\* a run has marked one of two nodes
C21_Witness ==
    /\ gLast.op = "node_started"
    /\ \E i \in 1..Len(nodes) : nodes[i].id = gLast.id /\ IsActiveOf(nodes[i])
    /\ \E i \in 1..Len(nodes) : nodes[i].id # gLast.id /\ ~IsActiveOf(nodes[i])

\* a node without the delete callback the editor hands to its component
SansOnDelete(node) ==
    [node EXCEPT !.data = [f \in DOMAIN node.data \ {"onDelete"} |-> node.data[f]]]

\* what updateNodeConfig(key, value) is claimed to do to the node at index i
ConfigSetAt(i, key, value) ==
    /\ nodes[i].id = selectedNode.id
    /\ key \in DOMAIN nodes'[i].data.config
    /\ nodes'[i].data.config[key] = value
    /\ \A k \in DOMAIN nodes[i].data.config \ {key} :
          k \in DOMAIN nodes'[i].data.config
          /\ nodes'[i].data.config[k] = nodes[i].data.config[k]
    /\ DOMAIN nodes'[i].data.config = DOMAIN nodes[i].data.config \cup {key}
    /\ \A j \in 1..Len(nodes) \ {i} : SansOnDelete(nodes'[j]) = SansOnDelete(nodes[j])
    /\ selectedNode' # None
    /\ selectedNode'.data.config = nodes'[i].data.config

\* C24 (as claimed): with a node selected, updateNodeConfig(key, value) sets
\* config[key] = value on that node of the canvas, keeps its other config keys
\* and every other node, leaves the edges alone, and leaves the selection's
\* config equal to the node's.
C24_ConfigMerged ==
    [][\A key \in ConfigKeys : \A value \in ConfigValues :
          UpdateNodeConfig(key, value) =>
              /\ Len(nodes') = Len(nodes)
              /\ edges' = edges
              /\ \E i \in 1..Len(nodes) : ConfigSetAt(i, key, value)]_vars

\* C22: the document a save sends has isActive false on every node, and apart
\* from that flag its nodes and edges are the editor's nodes and edges at the
\* time of the save.
C22_SavedWithoutOverlay ==
    [][SaveClick =>
          LET doc == saveCall'.workflow_data
          IN  /\ Len(doc.nodes) = Len(nodes)
              /\ doc.edges = edges
              /\ \A i \in 1..Len(nodes) :
                    /\ "isActive" \in DOMAIN doc.nodes[i].data
                    /\ doc.nodes[i].data.isActive = FALSE
                    /\ SansActive(doc.nodes[i]) = SansActive(nodes[i])]_vars

\* a save was just started while a run had a node marked active and the
\* nodes carried their delete callback
C22_Witness ==
    /\ gLast.op = "save"
    /\ saveCall # None
    /\ \E i \in 1..Len(nodes) : IsActiveOf(nodes[i])
    /\ \E i \in 1..Len(nodes) : HasOnDelete(nodes[i])
    /\ Len(saveCall.workflow_data.edges) > 0

\* what C23 says of each step of a save: create exactly when nothing is bound,
\* update of the bound id otherwise; success binds the returned workflow,
\* failure keeps the binding
SaveSteps ==
    /\ SaveClick =>
          /\ saveCall'.kind = IF currentWorkflow = 0 THEN "create" ELSE "update"
          /\ saveCall'.id = currentWorkflow
    /\ SaveOk =>
          currentWorkflow' =
              IF saveCall.kind = "create" THEN CreatedId(gSaves) ELSE saveCall.id
    /\ SaveFail => currentWorkflow' = currentWorkflow

\* C23 (as claimed): a save creates exactly when no workflow is bound and
\* updates the bound id otherwise; a save that succeeds binds the returned
\* workflow and one that fails keeps the binding; between a new/load and the
\* next, at most one create request is issued.
C23_AtMostOneCreateIssued ==
    [](gCreates <= 1) /\ [][SaveSteps]_vars

\* C23 (amended): the same, with at most one create request answered between
\* a new/load and the next: a create that failed leaves the editor unbound
\* and the next save creates again.
C23_AtMostOneCreateAnswered ==
    [](gCreated <= 1) /\ [][SaveSteps]_vars

\* a create was answered and the save after it updated the created workflow
C23_Witness ==
    /\ gCreated = 1
    /\ gSaves = 2
    /\ saveCall # None /\ saveCall.kind = "update" /\ saveCall.id = CreatedId(1)

\* the graph a list of nodes holds: ids, types and configs, without the flags
\* the editor derives (isStart, isActive)
GraphNodes(nds) ==
    [i \in 1..Len(nds) |-> [id |-> nds[i].id, type |-> nds[i].type,
                            config |-> nds[i].data.config]]

\* the graph a list entry stores, empty when it stores none
StoredGraph(workflow) ==
    IF "workflow_data" \in DOMAIN workflow
    THEN [nodes |-> GraphNodes(Field(workflow.workflow_data, "nodes", <<>>)),
          edges |-> Field(workflow.workflow_data, "edges", <<>>)]
    ELSE [nodes |-> <<>>, edges |-> <<>>]

\* C25 (as claimed): after handleLoad(workflow) the editor holds that
\* workflow's stored graph, the empty graph when it stores none, and is bound
\* to that workflow.
C25_LoadReplacesGraph ==
    [][\A w \in 1..Len(workflows) :
          Load(w) =>
              /\ currentWorkflow' = workflows[w].id
              /\ GraphNodes(nodes') = StoredGraph(workflows[w]).nodes
              /\ edges' = StoredGraph(workflows[w]).edges]_vars

\* C27 (as claimed): whenever a node is selected, a node with the selected
\* node's id is on the canvas.
C27_SelectionOnCanvas ==
    selectedNode # None => selectedNode.id \in Ids(nodes)

----------------------------------------------------------------------------
(* Claims about the execution views *)

\* C3: a stream event whose execution_id is not the viewed execution's
\* leaves the execution record (with its log) and the video list unchanged
\* and starts no snapshot request, in both views.
C3_ForeignEventsIgnored ==
    [][\A m \in Messages :
          (m.execution_id # ViewedExecution /\ Message(m))
              => UNCHANGED <<execution, videos, fetches>>]_vars

\* C9: once every video of the snapshot has had its three events, in
\* whatever interleaving, all N entries are completed with a null current
\* stage.
C9_StreamCompletesAll ==
    (\A k \in DOMAIN sPos : sPos[k] = StreamDone)
        => /\ Len(videos) = Len(sPos)
           /\ \A k \in 1..Len(videos) :
                 /\ videos[k].status = "completed"
                 /\ videos[k].current_stage = Null

C9_Witness ==
    /\ eView = "WorkflowExecutionDetails"
    /\ Len(sPos) >= 2
    /\ \A k \in DOMAIN sPos : sPos[k] = StreamDone
    /\ execution # None

\* the state the view's handler leaves when it runs on m once more
AppliedAgain(m) ==
    IF eView = "WorkflowProgress"
    THEN <<execution, WPEffect(LastMessage, ViewedExecution, videos)>>
    ELSE <<WEDExecution(m, execution), WEDVideos(m, videos)>>

\* C10: video_failed(i, e) for the viewed execution with i inside the list
\* leaves entry i failed with error e, whatever the entry was before, and
\* running the handler on the same event again changes nothing.
C10_FailedSetsStatusAndError ==
    [][\A m \in Messages :
          (/\ m.type = "video_failed"
           /\ m.execution_id = ViewedExecution
           /\ HasEntry(videos, m.video_index)
           /\ Message(m))
              => /\ videos'[m.video_index + 1].status = "failed"
                 /\ Field(videos'[m.video_index + 1], "error", Null) = m.error
                 /\ AppliedAgain(m)' = <<execution', videos'>>]_vars

C10_Witness ==
    /\ eView = "WorkflowExecutionDetails"
    /\ \E k \in 1..Len(videos) :
          /\ videos[k].status = "failed"
          /\ Field(videos[k], "error", Null) = "boom"
          /\ videos[k].stages["download"] = "completed"
    /\ execution # None

VideoEventTypes == {"video_started", "video_stage_update", "video_completed", "video_failed"}

\* C17: an event other than videos_scanned keeps the length and order of the
\* video list; a video event changes at most the entry at its video_index,
\* and nothing when the index is outside the list.
C17_OnlyIndexedEntryChanges ==
    [][\A m \in ListEvents :
          ListEvent(m) =>
              /\ Len(videos') = Len(videos)
              /\ \A k \in 1..Len(videos) :
                    (m.type \notin VideoEventTypes \/ k # m.video_index + 1)
                        => videos'[k] = videos[k]
              /\ ~HasEntry(videos, m.video_index) => videos' = videos]_vars

\* two events went to the second of two entries; the first is as it came
C17_Witness ==
    /\ eView = "WorkflowExecutionDetails"
    /\ lSteps = 2
    /\ Len(videos) = 2
    /\ videos[1] = VideoPending
    /\ videos[2] = [VideoPending EXCEPT !.status = "processing",
                                        !.current_stage = "download",
                                        !.stages = [s \in Stages |-> "running"]]

\* C18 (as claimed): video_stage_update(index, stage, status) for an index
\* inside the list sets stages[stage] = status on that entry, creating the
\* key if absent, and sets the current stage to stage only when status is
\* 'running'.
C18_StageUpdate ==
    [][\A m \in ListEvents :
          (m.type = "video_stage_update" /\ HasEntry(videos, m.video_index)
           /\ ListEvent(m)) =>
              LET before == videos[m.video_index + 1]
                  after == videos'[m.video_index + 1]
              IN  /\ "stages" \in DOMAIN after
                  /\ m.stage \in DOMAIN after.stages
                  /\ after.stages[m.stage] = m.status
                  /\ Field(after, "current_stage", Null) =
                        IF m.status = "running" THEN m.stage
                        ELSE Field(before, "current_stage", Null)]_vars

\* C19 (as claimed): a workflow_completed or workflow_failed event of the
\* viewed execution puts one more snapshot request for it in flight, and a
\* request that succeeds leaves the execution record equal to the snapshot
\* and the video list equal to the snapshot's list when it has one.
C19_TerminalEventRefetches ==
    [][/\ \A m \in Messages :
             (IsTerminalOfViewed(m) /\ Message(m))
                 => fetches' = Append(fetches, ViewedExecution)
       /\ \A k \in 1..Len(fetches) : \A data \in Snapshots(ViewedExecution) :
             FetchOk(k, data) =>
                 /\ execution' = RecordOf(data)
                 /\ "scanned_videos" \in DOMAIN data => videos' = data.scanned_videos]_vars

\* the first snapshot request has failed and nothing else is in flight
FetchHasFailed == execution = None /\ fetches = <<>> /\ ~loading

\* C20 (as claimed): once the snapshot request has failed, no stream event
\* changes the view: the record stays absent, the video list stays as it was
\* and nothing is fetched.
C20_NoMergeAfterFailedFetch ==
    [][FetchHasFailed =>
          /\ execution' = None
          /\ videos' = videos
          /\ fetches' = fetches]_vars

----------------------------------------------------------------------------
(* Claims about destructive actions *)

----------------------------------------------------------------------------
(* Claims about navigation in WorkflowExecutionDetails *)

\* every request has been answered, the one of the route with a record
AllResolved == fetches = <<>> /\ routeId \in DOMAIN answers

\* C29: when the route changed from A to B while a request for A was in
\* flight, then once every request is resolved the record and the video list
\* on screen are those of B's response.
C29_ShowsRouteExecution ==
    overtaken /\ AllResolved
        => /\ execution = RecordOf(answers[routeId])
           /\ videos = ScannedOf(answers[routeId])

----------------------------------------------------------------------------
(* Claims about SingleDownloader *)

\* the start request's response has set the id of the download started last
IdSet == dlTarget # "" /\ downloadId = dlTarget
\* a terminal frame of the download started last has been delivered
TerminalDelivered == dlTerminal # "none"
\* a 'failed' frame of the running download has been delivered
FailedDelivered == dlTerminal = "failed" /\ isDownloading
\* the entry the hook holds for the download started last, None without one
TargetEntry == IF dlTarget = "" THEN None ELSE GetProgress(dlTarget)
\* the frame delivered last for the download started last is a terminal one
LastIsTerminal == TargetEntry # None /\ TargetEntry.status \in {"completed", "failed"}
LastIsFailed == TargetEntry # None /\ TargetEntry.status = "failed"
DownloadOver == ~isDownloading
\* setError(progressData.message || 'Download failed') has run on that entry
DownloadOverWithError ==
    /\ ~isDownloading
    /\ TargetEntry # None
    /\ dlError = OrElse(TargetEntry.message, DownloadFailed)

\* C30 (as claimed): once a 'completed' or 'failed' frame of the started
\* download has been delivered and the start request's response has set the
\* download id, in either order, isDownloading becomes false, and on 'failed'
\* the error is set.
C30_AsClaimed ==
    /\ (TerminalDelivered /\ IdSet) ~> DownloadOver
    /\ (FailedDelivered /\ IdSet) ~> DownloadOverWithError

\* C30: when the frame delivered last for the started download is a
\* 'completed' or 'failed' one and the start request's response has set the
\* download id, in either order, then isDownloading becomes false, and on
\* 'failed' the error is the frame's message or 'Download failed', unless a
\* later frame of that download takes the terminal frame's place in the
\* hook's map before the page's effect has read it.
C30_TerminalFrameEndsDownload ==
    /\ (LastIsTerminal /\ IdSet) ~> (DownloadOver \/ ~LastIsTerminal)
    /\ (LastIsFailed /\ IdSet /\ isDownloading) ~> (DownloadOverWithError \/ ~LastIsFailed)

\* the 'failed' frame, with a message, was delivered while the start request
\* was in flight, and the page shows the download as running
C30_Witness ==
    /\ dlTerminal = "failed"
    /\ LastIsFailed /\ TargetEntry.message = DiskFull
    /\ dlCall = dlTarget
    /\ downloadId # dlTarget
    /\ isDownloading

----------------------------------------------------------------------------
(* Claims about ChannelScanner *)

\* C16 (as claimed): when a scan succeeds, the call it answers asked for
\* maxVideos in partial mode, channelInfo.videoCount is the number of videos
\* in the response, the list is the response's videos, and none of them is
\* selected.
C16_ScanShowsResponseUnselected ==
    [][\A result \in ScanResults :
          (ScanSucceeds(result) /\ ScanSettles(result)) =>
              /\ scanMode = "partial" => scanCall.max_videos = maxVideos
              /\ channelInfo'.videoCount = Len(result.videos)
              /\ scanVideos' = result.videos
              /\ \A k \in 1..Len(scanVideos') :
                    ~Includes(selectedVideos', VideoKey(scanVideos'[k]))]_vars

====
